---- MODULE Spec2Model ----
(***************************************************************************)
(* Relevance filtering, sentiment aggregation and recommendation engine    *)
(* of the stock sentiment analyzer: the Streamlit prototype                *)
(* (sentiment_analyzer.py, data_fetcher.py, app.py) and the FastAPI        *)
(* service (backend/app/services, backend/app/api/routers).                *)
(*                                                                         *)
(* Numbers.  The code computes in IEEE doubles; the model computes in      *)
(* exact integers:                                                         *)
(*   - a score is an integer number of 1/ScoreDen (hundredths);            *)
(*   - a recency weight is an integer number of 1/RecUnit, RecUnit =       *)
(*     10 * 2^FracBits; a positive weight below that resolution is kept    *)
(*     at one unit, and, as in a double, the weight is 0.0 from 1075       *)
(*     half-lives on, where math.exp underflows;                           *)
(*   - an aggregate is a rational [num, den] in score units.               *)
(* Time is counted in hours.                                               *)
(***************************************************************************)
EXTENDS Integers, Sequences, FiniteSets, TLC

VARIABLES
    now,        \* the wall clock read by datetime.now(timezone.utc), in hours
    analyzed,   \* the list of analyzed items handed to the aggregator
    agg,        \* the last aggregation call: its inputs, instant and result
    prevAgg,    \* the aggregation call before it
    sug,        \* the last call of a recommendation classifier
    prevSug,    \* the classifier call before it
    pipeline,   \* sentiment_model_loader.sentiment_pipeline_instance
    fetched,    \* the content list handed to the engine
    model_out,  \* what the classifier does with the texts of that list
    eng,        \* the last call of an analysis function or of the endpoint
    article,    \* the text, ticker and company name handed to the relevance filter
    relevant,   \* the last call of a relevance filter
    selInput,   \* the analyzed items handed to the justification selector
    selCall,    \* the last call of a justification selector
    upstream,   \* what the provider (NewsAPI, Reddit search) returns to a fetcher
    batch,      \* the last call of a fetcher and the list it returned
    db,         \* the SQLite tables NewsMediaItems and RedditItems
    run,        \* the last call of save_content_items, update_sentiment_for_items or perform_analysis
    reqs,       \* the sentiment requests in progress: position and local variables of each
    wishlist_items, \* the rows of table wishlist_items
    handlers    \* the add_stock_to_wishlist requests in progress

aggVars == <<now, analyzed, agg, prevAgg>>
clsVars == <<sug, prevSug>>
engVars == <<pipeline, fetched, model_out, eng>>
relVars == <<article, relevant>>
selVars == <<selInput, selCall>>
fetVars == <<upstream, batch>>
dbVars == <<db, run>>
reqVars == <<reqs>>
wishVars == <<wishlist_items, handlers>>
extVars == <<fetVars, dbVars, reqVars, wishVars>>
vars == <<aggVars, clsVars, engVars, relVars, selVars, extVars>>

None == [kind |-> "none"]

----------------------------------------------------------------------------
(* Bounds of the model *)

MaxItems == 2
MaxTicks == 1
FracBits == 6

----------------------------------------------------------------------------
(* Units and configuration *)

ScoreDen == 100

RECENCY_DECAY_HALF_LIFE_HOURS == 24
INTENSITY_BOOST_FACTOR == [num |-> 1, den |-> 5]
SVC_HALF_LIFE_HOURS == 72
SVC_INTENSITY_BOOST == [num |-> 3, den |-> 20]

RECURSIVE Pow2(_)
Pow2(k) == IF k <= 0 THEN 1 ELSE 2 * Pow2(k - 1)

RecUnit == 10 * Pow2(FracBits)

Abs(x) == IF x < 0 THEN -x ELSE x

RECURSIVE GCD(_, _)
GCD(a, b) == IF b = 0 THEN a ELSE GCD(b, a % b)

\* a rational in lowest terms (den > 0)
Norm(r) ==
    LET g == GCD(Abs(r.num), r.den)
    IN [num |-> r.num \div g, den |-> r.den \div g]

RatEq(a, b) == Norm(a) = Norm(b)

Sign(x) == IF x > 0 THEN 1 ELSE IF x < 0 THEN -1 ELSE 0

----------------------------------------------------------------------------
(* Timestamps.  publishedAt is missing (None), a string fromisoformat      *)
(* rejects, or an ISO string with a trailing Z or without a zone, naming   *)
(* the UTC hour t.                                                         *)

Missing == [kind |-> "none"]
Unparsable == [kind |-> "bad"]
IsoZ(t) == [kind |-> "z", t |-> t]
IsoNaive(t) == [kind |-> "naive", t |-> t]

\* a publishedAt that is no string: a non-zero number of seconds or hours
Epoch(t) == [kind |-> "epoch", t |-> t]

\* `if published_at_str:` : None and '' are falsy
Truthy(p) == p.kind \notin {"none", "empty"}

\* The 'Z' replacement, datetime.fromisoformat and the conversion to UTC:
\* a ValueError for a string that is no ISO date, else the UTC hour.
ParseTimestamp(p) ==
    CASE p.kind = "z" -> [ok |-> TRUE, utc |-> p.t]
      [] p.kind = "naive" -> [ok |-> TRUE, utc |-> p.t]
      [] OTHER -> [ok |-> FALSE]

\* 0.5 for 0.1
DefaultRecencyWeight_Half == RecUnit \div 2

DefaultRecencyWeight == RecUnit \div 10

\* math.exp underflows to 0.0 once its result is below the smallest double:
\* from 1075 half-lives on
UnderflowHalfLives == 1075

\* math.exp(-math.log(2) * age_hours / half_life), in units of 1/RecUnit:
\* exact for a whole number of half-lives up to FracBits; a smaller result
\* that a double still holds as a positive number is kept positive (one
\* unit); 0 from the underflow point on.
ExpDecay(age_hours, half_life) ==
    LET k == age_hours \div half_life
        units == IF k < 0 THEN RecUnit * Pow2(-k)
                 ELSE IF k > FracBits + 4 THEN 0 ELSE RecUnit \div Pow2(k)
    IN IF k >= UnderflowHalfLives THEN 0
       ELSE IF units = 0 THEN 1 ELSE units

\* the clamp dropped: a future-dated item has a negative age
AgeHours_Unclamped(t, utc) == t - utc

\* (published_dt - now_utc): the operands of the age swapped
AgeHours_Reversed(t, utc) == IF utc - t < 0 THEN 0 ELSE utc - t

\* age_hours, clamped: `if age_hours < 0: age_hours = 0` / max(0, ...)
AgeHours(t, utc) == IF t - utc < 0 THEN 0 ELSE t - utc

\* an item without a usable timestamp dropped from the mean
RecencyWeight_SkipUndated(item, t, half_life) ==
    IF Truthy(item.publishedAt) /\ ParseTimestamp(item.publishedAt).ok
    THEN ExpDecay(AgeHours(t, ParseTimestamp(item.publishedAt).utc), half_life)
    ELSE 0

RecencyWeight(item, t, half_life) ==
    IF Truthy(item.publishedAt)
    THEN LET parsed == ParseTimestamp(item.publishedAt)
         IN IF parsed.ok
            THEN ExpDecay(AgeHours(t, parsed.utc), half_life)
            ELSE DefaultRecencyWeight
    ELSE DefaultRecencyWeight

\* 1.0 + abs(score) * boost, in units of 1/(ScoreDen * boost.den)
IntensityWeight(score, boost) == ScoreDen * boost.den + Abs(score) * boost.num

\* combined_item_weight = recency_weight * intensity_weight_component
ItemWeight(item, t, half_life, boost) ==
    RecencyWeight(item, t, half_life) * IntensityWeight(item.score, boost)

\* total_weight_sum += recency_weight: the intensity component left out
RECURSIVE TotalWeight_RecencyOnly(_, _, _, _)
TotalWeight_RecencyOnly(items, t, half_life, boost) ==
    IF items = <<>> THEN 0
    ELSE RecencyWeight(Head(items), t, half_life) * (ScoreDen * boost.den)
         + TotalWeight_RecencyOnly(Tail(items), t, half_life, boost)

RECURSIVE TotalWeight(_, _, _, _)
TotalWeight(items, t, half_life, boost) ==
    IF items = <<>> THEN 0
    ELSE ItemWeight(Head(items), t, half_life, boost)
         + TotalWeight(Tail(items), t, half_life, boost)

RECURSIVE TotalWeightedScore(_, _, _, _)
TotalWeightedScore(items, t, half_life, boost) ==
    IF items = <<>> THEN 0
    ELSE Head(items).score * ItemWeight(Head(items), t, half_life, boost)
         + TotalWeightedScore(Tail(items), t, half_life, boost)

RECURSIVE ScoreSum(_)
ScoreSum(items) ==
    IF items = <<>> THEN 0 ELSE Head(items).score + ScoreSum(Tail(items))

Zero == [num |-> 0, den |-> 1]

\* sentiment_analyzer.calculate_weighted_sentiment, called at wall-clock t
calculate_weighted_sentiment(items, t) ==
    IF items = <<>> THEN Zero
    ELSE LET w == TotalWeight(items, t, RECENCY_DECAY_HALF_LIFE_HOURS, INTENSITY_BOOST_FACTOR)
             ws == TotalWeightedScore(items, t, RECENCY_DECAY_HALF_LIFE_HOURS, INTENSITY_BOOST_FACTOR)
         IN IF w = 0
            THEN [num |-> ScoreSum(items), den |-> Len(items)]
            ELSE [num |-> ws, den |-> w]

\* sentiment_service.calculate_final_sentiment_score, called at wall-clock t
calculate_final_sentiment_score(items, t) ==
    IF items = <<>> THEN Zero
    ELSE LET w == TotalWeight(items, t, SVC_HALF_LIFE_HOURS, SVC_INTENSITY_BOOST)
             ws == TotalWeightedScore(items, t, SVC_HALF_LIFE_HOURS, SVC_INTENSITY_BOOST)
         IN IF w = 0 THEN Zero ELSE [num |-> ws, den |-> w]

\* `published_at_str.endswith('Z')` on a truthy value that is no string
\* raises AttributeError, which neither `except ValueError` nor
\* `except (ValueError, TypeError)` catches
RaisesAttributeError(items) ==
    \E i \in 1..Len(items) :
        Truthy(items[i].publishedAt) /\ items[i].publishedAt.kind = "epoch"

Returned(score) == [kind |-> "return", score |-> score]
Raised(error) == [kind |-> "raise", error |-> error]

\* a call of calculate_weighted_sentiment: what reaches the caller
weighted_sentiment_call(items, t) ==
    IF RaisesAttributeError(items) THEN Raised("AttributeError")
    ELSE Returned(calculate_weighted_sentiment(items, t))

\* a call of calculate_final_sentiment_score: what reaches the caller
final_sentiment_score_call(items, t) ==
    IF RaisesAttributeError(items) THEN Raised("AttributeError")
    ELSE Returned(calculate_final_sentiment_score(items, t))

----------------------------------------------------------------------------
(* Recommendation classifier.  A score is a rational r in score units; a   *)
(* threshold is written in hundredths, as in the source (0.25 is 25).      *)

Threshold(hundredths) == (hundredths * ScoreDen) \div 100

Gt(r, hundredths) == r.num > Threshold(hundredths) * r.den
Ge(r, hundredths) == r.num >= Threshold(hundredths) * r.den

\* `aggregated_sentiment_score >= 0.25`: the first boundary made inclusive
get_suggestion_Inclusive(r) ==
    IF Ge(r, 25) THEN "Strong Buy"
    ELSE IF Gt(r, 5) THEN "Buy"
    ELSE IF Ge(r, -5) THEN "Hold"
    ELSE IF Ge(r, -25) THEN "Sell"
    ELSE "Strong Sell"

\* sentiment_analyzer.get_suggestion
get_suggestion(r) ==
    IF Gt(r, 25) THEN "Strong Buy"
    ELSE IF Gt(r, 5) THEN "Buy"
    ELSE IF Ge(r, -5) THEN "Hold"
    ELSE IF Ge(r, -25) THEN "Sell"
    ELSE "Strong Sell"

\* sentiment_service.get_sentiment_suggestion
get_sentiment_suggestion(r) ==
    IF Gt(r, 25) THEN "Strong Buy"
    ELSE IF Gt(r, 5) THEN "Buy"
    ELSE IF Ge(r, -5) THEN "Hold"
    ELSE IF Ge(r, -25) THEN "Sell"
    ELSE "Strong Sell"

----------------------------------------------------------------------------
(* Content items and the classifier.  A dict field holds a string, None    *)
(* (PyNone) or is absent from the dict (Absent); a label is a sequence of  *)
(* characters, so that str.lower() is computed.                            *)

Absent == "<absent>"
PyNone == "<None>"

\* dict.get(key, default)
Get(item, key, default) == IF item[key] = Absent THEN default ELSE item[key]

\* `not value` for None and ''
Falsy(v) == v \in {PyNone, ""}

UpperCase == <<"A", "B", "C", "D", "E", "F", "G", "H", "I", "J", "K", "L", "M",
               "N", "O", "P", "Q", "R", "S", "T", "U", "V", "W", "X", "Y", "Z">>
LowerCase == <<"a", "b", "c", "d", "e", "f", "g", "h", "i", "j", "k", "l", "m",
               "n", "o", "p", "q", "r", "s", "t", "u", "v", "w", "x", "y", "z">>

LowerChar(c) ==
    IF \E i \in 1..Len(UpperCase) : UpperCase[i] = c
    THEN LowerCase[CHOOSE i \in 1..Len(UpperCase) : UpperCase[i] = c]
    ELSE c

\* str.lower()
lower(str) == [i \in 1..Len(str) |-> LowerChar(str[i])]

POSITIVE == <<"p", "o", "s", "i", "t", "i", "v", "e">>
NEGATIVE == <<"n", "e", "g", "a", "t", "i", "v", "e">>
NEUTRAL == <<"n", "e", "u", "t", "r", "a", "l">>

\* the else branch dropped: a label that is not 'positive' negated
normalized_score_NoLabelCheck(model_label, model_score) ==
    IF model_label = POSITIVE THEN model_score ELSE -model_score

\* sentiment_analyzer.analyze_sentiment_for_ticker, lines 70-78
normalized_score(model_label, model_score) ==
    IF model_label = POSITIVE THEN model_score
    ELSE IF model_label = NEGATIVE THEN -model_score
    ELSE IF model_label = NEUTRAL THEN 0
    ELSE 0

\* sentiment_service.analyze_content_sentiment, lines 52-55
svc_normalized_score(model_label, model_score) ==
    IF model_label = POSITIVE THEN model_score
    ELSE IF model_label = NEGATIVE THEN -model_score
    ELSE 0

\* item.get('full_text', item.get('headline'))
TextOf(item) == Get(item, "full_text", Get(item, "headline", PyNone))

HasText(item) == ~Falsy(TextOf(item))

\* original_items_map: the items that have text, in order
Kept(content) == SelectSeq(content, HasText)

Min2(a, b) == IF a < b THEN a ELSE b

ProtoDetail(item, result) ==
    [headline |-> Get(item, "headline", "N/A"),
     full_text_analyzed |-> <<TextOf(item), "...">>,
     url |-> Get(item, "url", PyNone),
     score |-> normalized_score(lower(result.label), result.score),
     label |-> lower(result.label),
     publishedAt |-> item.publishedAt,
     source_name |-> Get(item, "source_name", "Unknown"),
     source_type |-> Get(item, "source_type", "unknown")]

SvcDetail(item, result) ==
    [headline |-> Get(item, "headline", "N/A"),
     url |-> Get(item, "url", PyNone),
     score |-> svc_normalized_score(lower(result.label), result.score),
     label |-> lower(result.label),
     publishedAt |-> item.publishedAt,
     source_name |-> Get(item, "source_name", "Unknown"),
     source_type |-> Get(item, "source_type", "unknown"),
     source_specific_id |-> Get(item, "id", PyNone)]

\* the result of text i attached to item i of the unfiltered list
analyze_sentiment_for_ticker_Unfiltered(content, instance, outcome) ==
    IF content = <<>> THEN <<>>
    ELSE IF instance = "None" THEN <<>>
    ELSE IF Kept(content) = <<>> THEN <<>>
    ELSE IF outcome.kind = "raise" THEN <<>>
    ELSE [i \in 1..Min2(Len(outcome.results), Len(Kept(content))) |->
             ProtoDetail(content[i], outcome.results[i])]

\* sentiment_analyzer.analyze_sentiment_for_ticker: `instance` is the
\* pipeline argument ("None" or "loaded"), `outcome` what the pipeline call
\* does (raises, or returns a list of results).  An exception inside the
\* try block leaves the details appended so far.
analyze_sentiment_for_ticker(content, instance, outcome) ==
    IF content = <<>> THEN <<>>
    ELSE IF instance = "None" THEN <<>>
    ELSE IF Kept(content) = <<>> THEN <<>>
    ELSE IF outcome.kind = "raise" THEN <<>>
    ELSE [i \in 1..Min2(Len(outcome.results), Len(Kept(content))) |->
             ProtoDetail(Kept(content)[i], outcome.results[i])]

\* sentiment_service.analyze_content_sentiment: the pipeline is the global
\* instance; get_sentiment_pipeline raises RuntimeError when it is None.
\* Any exception inside the try block returns [].
analyze_content_sentiment(content, instance, outcome) ==
    IF content = <<>> THEN <<>>
    ELSE IF instance = "None" THEN <<>>
    ELSE IF Kept(content) = <<>> THEN <<>>
    ELSE IF outcome.kind = "raise" THEN <<>>
    ELSE IF Len(outcome.results) > Len(Kept(content)) THEN <<>>
    ELSE [i \in 1..Len(outcome.results) |->
             SvcDetail(Kept(content)[i], outcome.results[i])]

----------------------------------------------------------------------------
(* The justification selectors *)

\* one step of the stable descending sort: x goes behind every element that
\* does not rank below it
RECURSIVE InsertDesc(_, _)
InsertDesc(sorted, x) ==
    IF sorted = <<>> THEN <<x>>
    ELSE IF Head(sorted).score >= x.score
         THEN <<Head(sorted)>> \o InsertDesc(Tail(sorted), x)
         ELSE <<x>> \o sorted

\* sorted(results, key=score, reverse=True)
RECURSIVE SortedDesc(_)
SortedDesc(results) ==
    IF results = <<>> THEN <<>>
    ELSE InsertDesc(SortedDesc(SubSeq(results, 1, Len(results) - 1)),
                    results[Len(results)])

\* the first element, whatever its score
MinAbs_First(results) == results[1]

\* min(results, key=abs(score)): the first of the minimal elements
MinAbs(results) ==
    results[CHOOSE i \in 1..Len(results) :
                /\ \A j \in 1..Len(results) : Abs(results[i].score) <= Abs(results[j].score)
                /\ \A j \in 1..(i - 1) : Abs(results[j].score) > Abs(results[i].score)]

\* points[:3]
FirstThree(points) == SubSeq(points, 1, Min2(3, Len(points)))

\* a formatted justification line of the prototype: its marker, source,
\* headline, url and the score printed with two decimals (scores are
\* hundredths, so the printed score is the score)
Line(type, item) ==
    [type |-> type, source |-> item.source_name, headline |-> item.headline,
     url |-> item.url, score |-> item.score]

NoDataLine == [type |-> "no_data"]

\* the two significance tests made inclusive (>= 0.1, <= -0.1)
get_validation_points_Inclusive(analyzed_results) ==
    IF analyzed_results = <<>> THEN <<NoDataLine>>
    ELSE
    LET sorted_results == SortedDesc(analyzed_results)
        last == sorted_results[Len(sorted_results)]
        pos == IF sorted_results[1].score >= Threshold(10)
               THEN <<Line("positive", sorted_results[1])>> ELSE <<>>
        neg == IF last.score <= Threshold(-10)
               THEN <<Line("negative", last)>> ELSE <<>>
        strong == pos \o neg
        item == IF \E i \in 1..Len(sorted_results) :
                      Abs(sorted_results[i].score) < Threshold(5)
                THEN MinAbs(sorted_results)
                ELSE sorted_results[1]
        mix == IF Len(strong) < 2
                  /\ Len(sorted_results) > (IF strong # <<>> THEN 1 ELSE 0)
                  /\ strong = <<>>
               THEN <<Line("neutral_mix", item)>> ELSE <<>>
        points == strong \o mix
        fallback == IF points = <<>>
                    THEN <<Line("neutral", MinAbs(analyzed_results))>> ELSE <<>>
    IN FirstThree(points \o fallback)

\* sentiment_analyzer.get_validation_points
get_validation_points(analyzed_results) ==
    IF analyzed_results = <<>> THEN <<NoDataLine>>
    ELSE
    LET sorted_results == SortedDesc(analyzed_results)
        last == sorted_results[Len(sorted_results)]
        pos == IF sorted_results[1].score > Threshold(10)
               THEN <<Line("positive", sorted_results[1])>> ELSE <<>>
        neg == IF last.score < Threshold(-10)
               THEN <<Line("negative", last)>> ELSE <<>>
        strong == pos \o neg
        item == IF \E i \in 1..Len(sorted_results) :
                      Abs(sorted_results[i].score) < Threshold(5)
                THEN MinAbs(sorted_results)
                ELSE sorted_results[1]
        mix == IF Len(strong) < 2
                  /\ Len(sorted_results) > (IF strong # <<>> THEN 1 ELSE 0)
                  /\ strong = <<>>
               THEN <<Line("neutral_mix", item)>> ELSE <<>>
        points == strong \o mix
        fallback == IF points = <<>>
                    THEN <<Line("neutral", MinAbs(analyzed_results))>> ELSE <<>>
    IN FirstThree(points \o fallback)

\* a justification point of the service
Point(type, item) ==
    [type |-> type, headline |-> item.headline, url |-> item.url,
     source |-> item.source_name, score |-> item.score]

\* `closest_neutral not in [p.get('headline') for p in points ...]`: a dict
\* compared with the headline strings, equal to none of them
DictEqualsStr(item, headline) == FALSE

NotAmongHeadlines(item, points) ==
    \A i \in 1..Len(points) : ~DictEqualsStr(item, points[i].headline)

\* the neutral point added whenever fewer than 3 points exist
extract_validation_points_AlwaysNeutral(analyzed_details) ==
    IF analyzed_details = <<>> THEN <<>>
    ELSE
    LET sorted_results == SortedDesc(analyzed_details)
        last == sorted_results[Len(sorted_results)]
        pos == IF sorted_results[1].score > Threshold(10)
               THEN <<Point("positive", sorted_results[1])>> ELSE <<>>
        neg == IF last.score < Threshold(-10)
               THEN <<Point("negative", last)>> ELSE <<>>
        points == pos \o neg
        closest_neutral == MinAbs(analyzed_details)
        neutral == IF Len(points) < 3 /\ NotAmongHeadlines(closest_neutral, points)
                   THEN <<Point("neutral", closest_neutral)>> ELSE <<>>
    IN FirstThree(points \o neutral)

\* sentiment_service.extract_validation_points
extract_validation_points(analyzed_details) ==
    IF analyzed_details = <<>> THEN <<>>
    ELSE
    LET sorted_results == SortedDesc(analyzed_details)
        last == sorted_results[Len(sorted_results)]
        pos == IF sorted_results[1].score > Threshold(10)
               THEN <<Point("positive", sorted_results[1])>> ELSE <<>>
        neg == IF last.score < Threshold(-10)
               THEN <<Point("negative", last)>> ELSE <<>>
        points == pos \o neg
        closest_neutral == MinAbs(analyzed_details)
        neutral == IF Len(points) < 2 /\ NotAmongHeadlines(closest_neutral, points)
                   THEN <<Point("neutral", closest_neutral)>> ELSE <<>>
    IN FirstThree(points \o neutral)

----------------------------------------------------------------------------
(* The aggregator under a running clock *)

\* the hour of the first call; hour 0 is past the underflow point of both
\* half-lives
Now0 == UnderflowHalfLives * SVC_HALF_LIFE_HOURS
TickHours == SVC_HALF_LIFE_HOURS

\* hundredths; 100 is the largest score a classification yields
Scores == {-80, 80, 100}

\* hour 0 (weight underflowed), 1000 hours before the first call, and one
\* tick after it (future-dated)
PubTimes == {0, Now0 - 1000, Now0 + TickHours}

Timestamps ==
    {Missing, Unparsable} \cup {IsoZ(t) : t \in PubTimes} \cup {IsoNaive(Now0)}

AnalyzedItems == [score : Scores, publishedAt : Timestamps]

ItemLists == UNION {[1..n -> AnalyzedItems] : n \in 0..MaxItems}

ClsIdle == sug = None /\ prevSug = None

SelIdle == selInput = <<>> /\ selCall = None

RelIdle == article = None /\ relevant = None

EngIdle == pipeline = "None" /\ fetched = <<>> /\ model_out = [kind |-> "not_called"] /\ eng = None

FetIdle == upstream = <<>> /\ batch = None

DbIdle == db = [NewsMediaItems |-> {}, RedditItems |-> {}] /\ run = None

ReqIdle == reqs = <<>>

WishIdle == wishlist_items = {} /\ handlers = <<>>

ExtIdle == FetIdle /\ DbIdle /\ ReqIdle /\ WishIdle

InitAgg ==
    /\ ExtIdle
    /\ now = Now0
    /\ analyzed \in ItemLists
    /\ agg = None
    /\ prevAgg = None
    /\ ClsIdle
    /\ SelIdle
    /\ EngIdle
    /\ RelIdle

\* the wall clock advances between calls
Tick ==
    /\ now < Now0 + MaxTicks * TickHours
    /\ now' = now + TickHours
    /\ UNCHANGED <<analyzed, agg, prevAgg>>
    /\ UNCHANGED <<extVars, clsVars, engVars, relVars, selVars>>

Call(impl, score) ==
    [kind |-> "call", impl |-> impl, items |-> analyzed, at |-> now, score |-> score]

CallPrototype ==
    /\ agg' = Call("prototype", calculate_weighted_sentiment(analyzed, now))
    /\ prevAgg' = agg
    /\ UNCHANGED <<now, analyzed>>
    /\ UNCHANGED <<extVars, clsVars, engVars, relVars, selVars>>

CallService ==
    /\ agg' = Call("service", calculate_final_sentiment_score(analyzed, now))
    /\ prevAgg' = agg
    /\ UNCHANGED <<now, analyzed>>
    /\ UNCHANGED <<extVars, clsVars, engVars, relVars, selVars>>

NextAgg == Tick \/ CallPrototype \/ CallService

SpecAgg == InitAgg /\ [][NextAgg]_vars

----------------------------------------------------------------------------
(* Properties of the aggregator (SpecAgg) *)

HalfLifeOf(impl) ==
    IF impl = "prototype" THEN RECENCY_DECAY_HALF_LIFE_HOURS ELSE SVC_HALF_LIFE_HOURS

BoostOf(impl) ==
    IF impl = "prototype" THEN INTENSITY_BOOST_FACTOR ELSE SVC_INTENSITY_BOOST

Called == agg.kind = "call" /\ agg.items # <<>>

InRange(items) == \A i \in 1..Len(items) : Abs(items[i].score) <= ScoreDen

Undated(item) ==
    ~Truthy(item.publishedAt) \/ ~ParseTimestamp(item.publishedAt).ok

CallWeight(c, i) == ItemWeight(c.items[i], c.at, HalfLifeOf(c.impl), BoostOf(c.impl))

CallTotalWeight(c) == TotalWeight(c.items, c.at, HalfLifeOf(c.impl), BoostOf(c.impl))

RECURSIVE SumFn(_, _)
SumFn(f, n) == IF n = 0 THEN 0 ELSE f[n] + SumFn(f, n - 1)

\* C1: for a non-empty list of items whose scores all lie in [-1, 1], the
\* score returned by either aggregator lies in [-1, 1], whatever the
\* timestamps are.
C1_AggregateBounded ==
    (Called /\ InRange(agg.items))
        => /\ agg.score.den > 0
           /\ Abs(agg.score.num) <= ScoreDen * agg.score.den

\* C1 witness: a two-item call with a missing and a dated timestamp whose
\* aggregate touches the upper bound 1.0
C1_Witness ==
    /\ Called /\ InRange(agg.items) /\ Len(agg.items) = 2
    /\ agg.items[1].publishedAt = Missing
    /\ agg.items[2].publishedAt.kind = "z"
    /\ agg.score.den > 1
    /\ agg.score.num = ScoreDen * agg.score.den

\* C4: when the total weight of a non-empty list is exactly zero, the
\* aggregator returns the unweighted mean of the raw scores, in the
\* prototype and in the service.
C4_ZeroWeightFallsBackToMean ==
    (Called /\ CallTotalWeight(agg) = 0)
        => RatEq(agg.score, [num |-> ScoreSum(agg.items), den |-> Len(agg.items)])

\* C4 witness: the prototype takes the fallback and returns a non-zero mean
C4_Witness ==
    /\ Called /\ CallTotalWeight(agg) = 0
    /\ agg.impl = "prototype"
    /\ Len(agg.items) = 2
    /\ agg.score = [num |-> ScoreSum(agg.items), den |-> 2]
    /\ agg.score.num # 0

\* C5: two aggregation calls over the same analyzed items return the same
\* score, regardless of the wall-clock time at which each call runs.
C5_SameItemsSameScore ==
    (/\ agg.kind = "call" /\ prevAgg.kind = "call"
     /\ agg.impl = prevAgg.impl /\ agg.items = prevAgg.items)
        => RatEq(agg.score, prevAgg.score)

\* the weight C7 states: 0.1 times the intensity weight for an undated item
C7_RefWeight(c, i) ==
    IF Undated(c.items[i])
    THEN (RecUnit \div 10) * IntensityWeight(c.items[i].score, BoostOf(c.impl))
    ELSE CallWeight(c, i)

\* C7: an item whose timestamp is missing or unparsable is not excluded: it
\* enters the weighted mean with recency weight 0.1 times its intensity
\* weight.
C7_UndatedItemContributes ==
    (Called /\ \E i \in 1..Len(agg.items) : Undated(agg.items[i]))
        => LET n == Len(agg.items)
               w == [i \in 1..n |-> C7_RefWeight(agg, i)]
               ws == [i \in 1..n |-> agg.items[i].score * w[i]]
           IN /\ SumFn(w, n) > 0
              /\ agg.score = [num |-> SumFn(ws, n), den |-> SumFn(w, n)]

\* C7 witness: an undated item moves the aggregate away from the score of
\* the dated item it is aggregated with
C7_Witness ==
    /\ Called /\ Len(agg.items) = 2
    /\ agg.items[1].publishedAt = Unparsable
    /\ ~Undated(agg.items[2])
    /\ CallWeight(agg, 2) > 0
    /\ agg.items[1].score # agg.items[2].score
    /\ ~RatEq(agg.score, [num |-> agg.items[2].score, den |-> 1])

\* C8: the combined weight of every analyzed item is strictly positive, for
\* every score and every timestamp, so the total weight of a non-empty list
\* is never zero.
C8_WeightsPositive ==
    Called => /\ \A i \in 1..Len(agg.items) : CallWeight(agg, i) > 0
              /\ CallTotalWeight(agg) # 0

BothDated(c) ==
    /\ Len(c.items) = 2
    /\ ~Undated(c.items[1]) /\ ~Undated(c.items[2])

Utc(item) == ParseTimestamp(item.publishedAt).utc

\* two dated items +s and -s, the first published after the second
OpposedPair(c) ==
    /\ c.kind = "call" /\ BothDated(c)
    /\ c.items[1].score # 0
    /\ c.items[1].score = -c.items[2].score
    /\ Utc(c.items[1]) > Utc(c.items[2])

\* the spec's instance: 0.8 published at the aggregation instant, -0.8
\* published 1000 hours earlier, half-life 24 h
C9_Instance(c) ==
    /\ c.kind = "call" /\ c.impl = "prototype" /\ BothDated(c)
    /\ c.items[1].score = (80 * ScoreDen) \div 100 /\ Utc(c.items[1]) = c.at
    /\ c.items[2].score = -c.items[1].score /\ Utc(c.items[2]) = c.at - 1000

\* above the Strong Buy threshold 0.25
StronglyPositive(r) == r.num > ((25 * ScoreDen) \div 100) * r.den

ClampedAge(c, i) ==
    IF c.at > Utc(c.items[i]) THEN c.at - Utc(c.items[i]) ELSE 0

Underflowed(c, i) == ClampedAge(c, i) >= UnderflowHalfLives * HalfLifeOf(c.impl)

C9_WitnessNegative ==
    /\ OpposedPair(agg) /\ agg.items[1].score < 0
    /\ ~Underflowed(agg, 2)
    /\ agg.score.num < 0

\* the recency weight an item had in a call
CallRecency(c, i) == RecencyWeight(c.items[i], c.at, HalfLifeOf(c.impl))

\* C24: for an item with a parsable timestamp the recency weight is
\* exp(-ln 2 * age / half_life) with the age clamped at 0: exactly 1 for an
\* item published at or after the aggregation instant, 1/2^k for an item
\* exactly k half-lives old, non-increasing in age and never above 1.
C24_RecencyHalvesPerHalfLife ==
    Called =>
        \A i \in 1..Len(agg.items) :
            ~Undated(agg.items[i]) =>
                /\ CallRecency(agg, i) <= RecUnit
                /\ Utc(agg.items[i]) >= agg.at => CallRecency(agg, i) = RecUnit
                /\ \A k \in 0..FracBits :
                      ClampedAge(agg, i) = k * HalfLifeOf(agg.impl)
                          => CallRecency(agg, i) * Pow2(k) = RecUnit
                /\ \A j \in 1..Len(agg.items) :
                      (~Undated(agg.items[j]) /\ ClampedAge(agg, j) >= ClampedAge(agg, i))
                          => CallRecency(agg, j) <= CallRecency(agg, i)

\* a call of the service one half-life after the first item was published
\* and before the second one is: weights 1/2 and 1
C24_Witness ==
    /\ Called /\ agg.impl = "service" /\ BothDated(agg)
    /\ ClampedAge(agg, 1) = SVC_HALF_LIFE_HOURS
    /\ CallRecency(agg, 1) * 2 = RecUnit
    /\ Utc(agg.items[2]) > agg.at - 1
    /\ prevAgg.kind = "call" /\ Utc(agg.items[2]) > prevAgg.at
    /\ CallRecency(prevAgg, 2) = RecUnit
    /\ CallRecency(agg, 2) = RecUnit

\* C28 (as stated): the recency weight of an item without a usable
\* timestamp is never greater than the recency weight of an item with a
\* parsable timestamp, whatever that item's age.
C28_UndatedNeverHeavier ==
    Called =>
        \A i, j \in 1..Len(agg.items) :
            (Undated(agg.items[i]) /\ ~Undated(agg.items[j]))
                => CallRecency(agg, i) <= CallRecency(agg, j)

\* C28 (amended): the recency weight 0.1 of an undated item is not greater
\* than that of a dated item at most 3 half-lives old, and greater than
\* that of a dated item 4 or more half-lives old.
C28_UndatedLighterThanRecentOnly ==
    Called =>
        \A i, j \in 1..Len(agg.items) :
            (Undated(agg.items[i]) /\ ~Undated(agg.items[j])) =>
                /\ CallRecency(agg, i) * 10 = RecUnit
                /\ ClampedAge(agg, j) <= 3 * HalfLifeOf(agg.impl)
                       => CallRecency(agg, i) <= CallRecency(agg, j)
                /\ ClampedAge(agg, j) >= 4 * HalfLifeOf(agg.impl)
                       => CallRecency(agg, j) < CallRecency(agg, i)

\* an undated item aggregated with an item exactly 3 half-lives old
C28_Witness ==
    /\ Called /\ Len(agg.items) = 2
    /\ Undated(agg.items[1]) /\ ~Undated(agg.items[2])
    /\ ClampedAge(agg, 2) = 3 * HalfLifeOf(agg.impl)
    /\ CallRecency(agg, 1) < CallRecency(agg, 2)

----------------------------------------------------------------------------
(* The recommendation classifier on its own (SpecClassify) *)

\* scores in 1/10000: the four thresholds, their neighbours on both sides,
\* and values inside each band
ClassifyNums ==
    {-10000, -2501, -2500, -2499, -1500, -501, -500, -499, 0,
     499, 500, 501, 1500, 2499, 2500, 2501, 10000}

ClassifyScores == {[num |-> n, den |-> 100] : n \in ClassifyNums}

AggIdle == now = Now0 /\ analyzed = <<>> /\ agg = None /\ prevAgg = None

InitClassify ==
    /\ ExtIdle
    /\ AggIdle
    /\ ClsIdle
    /\ SelIdle
    /\ EngIdle
    /\ RelIdle

Suggested(impl, r, label) ==
    [kind |-> "call", impl |-> impl, score |-> r, label |-> label]

SuggestPrototype ==
    \E r \in ClassifyScores :
        /\ sug' = Suggested("prototype", r, get_suggestion(r))
        /\ prevSug' = sug
        /\ UNCHANGED <<extVars, aggVars, engVars, relVars, selVars>>

SuggestService ==
    \E r \in ClassifyScores :
        /\ sug' = Suggested("service", r, get_sentiment_suggestion(r))
        /\ prevSug' = sug
        /\ UNCHANGED <<extVars, aggVars, engVars, relVars, selVars>>

NextClassify == SuggestPrototype \/ SuggestService

SpecClassify == InitClassify /\ [][NextClassify]_vars

Labels == {"Strong Sell", "Sell", "Hold", "Buy", "Strong Buy"}

\* bullishness of a label
Rank(label) ==
    CASE label = "Strong Sell" -> 1
      [] label = "Sell" -> 2
      [] label = "Hold" -> 3
      [] label = "Buy" -> 4
      [] label = "Strong Buy" -> 5
      [] OTHER -> 0

\* r <= q for rationals with the common denominator of ClassifyScores
RatLe(r, q) == r.num * q.den <= q.num * r.den

\* the reference partition, band by band, in 1/10000
ReferenceLabel(r) ==
    LET x == (10000 * r.num) \div (ScoreDen * r.den)
        exact == (10000 * r.num) % (ScoreDen * r.den) = 0
    IN CASE x > 2500 \/ (x = 2500 /\ ~exact) -> "Strong Buy"
         [] x > 500 \/ (x = 500 /\ ~exact) -> "Buy"
         [] x >= -500 -> "Hold"
         [] x >= -2500 -> "Sell"
         [] OTHER -> "Strong Sell"

\* C2: every score maps to exactly one of the five labels, following the
\* reference partition (> 0.25 Strong Buy, > 0.05 Buy, >= -0.05 Hold,
\* >= -0.25 Sell, else Strong Sell; the boundaries 0.25, 0.05, -0.05, -0.25
\* map to Buy, Hold, Hold, Sell), and a higher score never gets a less
\* bullish label.
C2_ClassifierTotalMonotonic ==
    /\ sug.kind = "call" =>
         /\ sug.label \in Labels
         /\ sug.label = ReferenceLabel(sug.score)
         /\ sug.score.num = 2500 => sug.label = "Buy"
         /\ sug.score.num = 500 => sug.label = "Hold"
         /\ sug.score.num = -500 => sug.label = "Hold"
         /\ sug.score.num = -2500 => sug.label = "Sell"
    /\ (sug.kind = "call" /\ prevSug.kind = "call" /\ RatLe(prevSug.score, sug.score))
         => Rank(prevSug.label) <= Rank(sug.label)

\* C2 witness: the boundary 0.25 classified as Buy right after a score just
\* above it was classified as Strong Buy by the other implementation
C2_Witness ==
    /\ sug.kind = "call" /\ prevSug.kind = "call"
    /\ sug.impl = "service" /\ prevSug.impl = "prototype"
    /\ sug.score.num = 2500 /\ sug.label = "Buy"
    /\ prevSug.score.num = 2501 /\ prevSug.label = "Strong Buy"

----------------------------------------------------------------------------
(* The engine: model loading, the two analysis functions and the endpoint *)

MaxContent == 2

Content(id, headline, full_text, publishedAt) ==
    [id |-> id, url |-> id, headline |-> headline, full_text |-> full_text,
     publishedAt |-> publishedAt, source_name |-> "Reuters", source_type |-> "news"]

\* what the fetchers build: identifier, headline, body and date all there
FetchedItems ==
    {Content("u1", "Title one", "Body one", IsoNaive(Now0)),
     Content("u2", "Title two", "Body two", IsoZ(0))}

\* what a caller of the analysis functions may pass besides: a headline
\* only, an empty body next to a headline, no text at all, no identifier
\* (and a number for a date)
ContentItems ==
    FetchedItems \cup
    {Content("u3", "Title three", Absent, Missing),
     Content("u4", "Title four", "", Unparsable),
     Content("u5", Absent, Absent, Missing),
     Content(Absent, "Title six", "Body six", Epoch(Now0))}

ListsOf(S, n) == UNION {[1..k -> S] : k \in 0..n}

Result(label, score) == [label |-> label, score |-> score]

\* classifier results: label as the model spells it, confidence in hundredths
Results ==
    {Result(<<"P", "O", "S", "I", "T", "I", "V", "E">>, 95),
     Result(<<"n", "e", "g", "a", "t", "i", "v", "e">>, 95),
     Result(<<"N", "e", "u", "t", "r", "a", "l">>, 50),
     Result(<<"u", "n", "k", "n", "o", "w", "n">>, 50),
     Result(<<"P", "o", "s", "i", "t", "i", "v", "e">>, 150),
     Result(<<"N", "E", "G", "A", "T", "I", "V", "E">>, 4)}

NotCalled == [kind |-> "not_called"]
Raises == [kind |-> "raise"]

\* what the pipeline call does with the texts of a list: it raises, or
\* returns one result per text; without text it is never called
Outcomes(content) ==
    IF Kept(content) = <<>> THEN {NotCalled}
    ELSE {Raises} \cup
         {[kind |-> "results", results |-> rs] : rs \in [1..Len(Kept(content)) -> Results]}

InitEngine ==
    /\ ExtIdle
    /\ AggIdle
    /\ ClsIdle
    /\ SelIdle
    /\ pipeline = "None"
    /\ fetched \in ListsOf(ContentItems, MaxContent)
    /\ model_out \in Outcomes(fetched)
    /\ eng = None
    /\ RelIdle

\* sentiment_model_loader.load_sentiment_model: with no instance yet, the
\* pipeline is built (ok) or building raises and the instance stays None;
\* a loaded instance is kept
load_sentiment_model ==
    \E ok \in BOOLEAN :
        /\ pipeline' = IF pipeline = "None"
                       THEN (IF ok THEN "loaded" ELSE "None")
                       ELSE pipeline
        /\ UNCHANGED <<extVars, aggVars, clsVars, relVars, selVars, fetched, model_out, eng>>

AnalyzePrototype ==
    \E instance \in {"None", "loaded"} :
        /\ eng' = [op |-> "analyze", impl |-> "prototype", instance |-> instance,
                   details |-> analyze_sentiment_for_ticker(fetched, instance, model_out)]
        /\ UNCHANGED <<extVars, aggVars, clsVars, relVars, selVars, pipeline, fetched, model_out>>

AnalyzeService ==
    /\ eng' = [op |-> "analyze", impl |-> "service", instance |-> pipeline,
               details |-> analyze_content_sentiment(fetched, pipeline, model_out)]
    /\ UNCHANGED <<extVars, aggVars, clsVars, relVars, selVars, pipeline, fetched, model_out>>

\* app.perform_analysis and stocks.get_stock_sentiment aggregate the items
\* of a non-empty analysis
AggregatePrototype ==
    /\ eng # None
    /\ eng.op = "analyze"
    /\ eng.impl = "prototype"
    /\ eng.details # <<>>
    /\ eng' = [op |-> "aggregate", impl |-> "prototype", details |-> eng.details,
               outcome |-> weighted_sentiment_call(eng.details, now)]
    /\ UNCHANGED <<extVars, aggVars, clsVars, relVars, selVars, pipeline, fetched, model_out>>

AggregateService ==
    /\ eng # None
    /\ eng.op = "analyze"
    /\ eng.impl = "service"
    /\ eng.details # <<>>
    /\ eng' = [op |-> "aggregate", impl |-> "service", details |-> eng.details,
               outcome |-> final_sentiment_score_call(eng.details, now)]
    /\ UNCHANGED <<extVars, aggVars, clsVars, relVars, selVars, pipeline, fetched, model_out>>

HttpError(code) == [kind |-> "http_error", status_code |-> code]

\* stocks.get_stock_sentiment from the fetched content on
get_stock_sentiment(fetched_content, instance, outcome, t) ==
    IF fetched_content = <<>> THEN HttpError(404)
    ELSE LET analyzed_details == analyze_content_sentiment(fetched_content, instance, outcome)
             final_score == calculate_final_sentiment_score(analyzed_details, t)
         IN IF analyzed_details = <<>> THEN HttpError(500)
            ELSE [kind |-> "response",
                  aggregated_score |-> final_score,
                  suggestion |-> get_sentiment_suggestion(final_score),
                  analyzed_articles_count |-> Len(analyzed_details),
                  justification_points |-> extract_validation_points(analyzed_details),
                  top_analyzed_items |-> SubSeq(analyzed_details, 1, Min2(15, Len(analyzed_details)))]

\* the fetchers hand the endpoint items of their own making only
GetStockSentiment ==
    /\ \A i \in 1..Len(fetched) : fetched[i] \in FetchedItems
    /\ eng' = [op |-> "get_stock_sentiment", instance |-> pipeline,
               result |-> get_stock_sentiment(fetched, pipeline, model_out, now)]
    /\ UNCHANGED <<extVars, aggVars, clsVars, relVars, selVars, pipeline, fetched, model_out>>

NextEngine ==
    \/ load_sentiment_model
    \/ AnalyzePrototype
    \/ AnalyzeService
    \/ AggregatePrototype
    \/ AggregateService
    \/ GetStockSentiment

SpecEngine == InitEngine /\ [][NextEngine]_vars

----------------------------------------------------------------------------
(* Claims about the engine *)

AnalysisDone == eng # None /\ eng.op = "analyze"

\* the pipeline was unavailable, raised, or had no text to work on
TotalFailure ==
    \/ eng.instance = "None"
    \/ model_out = Raises
    \/ Kept(fetched) = <<>>

AggregateOf(impl, details) ==
    IF impl = "prototype" THEN calculate_weighted_sentiment(details, now)
    ELSE calculate_final_sentiment_score(details, now)

SuggestionOf(impl, r) ==
    IF impl = "prototype" THEN get_suggestion(r) ELSE get_sentiment_suggestion(r)

JustificationOf(impl, details) ==
    IF impl = "prototype" THEN get_validation_points(details)
    ELSE extract_validation_points(details)

\* C3: on a total failure (pipeline unavailable or raising, or no item
\* left to analyze) the engine does not raise but returns a neutral result:
\* no analyzed items, aggregate 0.0, recommendation Hold and exactly one
\* 'no data' justification; the endpoint built on it returns a response.
C3_TotalFailureIsNeutral ==
    /\ (AnalysisDone /\ TotalFailure) =>
          LET points == JustificationOf(eng.impl, eng.details)
              score == AggregateOf(eng.impl, eng.details)
          IN /\ eng.details = <<>>
             /\ RatEq(score, Zero)
             /\ SuggestionOf(eng.impl, score) = "Hold"
             /\ Len(points) = 1
             /\ points[1].type = "no_data"
    /\ (eng # None /\ eng.op = "get_stock_sentiment" /\ TotalFailure) =>
          /\ eng.result.kind = "response"
          /\ eng.result.analyzed_articles_count = 0
          /\ eng.result.suggestion = "Hold"

\* the service analysed a non-empty list without a pipeline
C3_Witness ==
    /\ AnalysisDone
    /\ eng.impl = "service"
    /\ eng.instance = "None"
    /\ fetched # <<>>
    /\ eng.details = <<>>

\* the score the claim assigns to a classifier result
C6_Score(result) ==
    LET label == lower(result.label)
    IN CASE label = <<"p", "o", "s", "i", "t", "i", "v", "e">> -> result.score
         [] label = <<"n", "e", "g", "a", "t", "i", "v", "e">> -> 0 - result.score
         [] OTHER -> 0

\* C6: every analyzed item carries the lower-cased label of its classifier
\* result and the score +confidence for positive, -confidence for negative,
\* 0 for neutral and for any other label, the confidence taken as it is.
C6_NormalizerMapsLabel ==
    (AnalysisDone /\ eng.details # <<>>) =>
        \A i \in 1..Len(eng.details) :
            /\ eng.details[i].label = lower(model_out.results[i].label)
            /\ eng.details[i].score = C6_Score(model_out.results[i])

\* an analysis that met a confidence above 1 and an unexpected label
C6_Witness ==
    /\ AnalysisDone
    /\ Len(eng.details) = 2
    /\ eng.details[1].score = 150
    /\ eng.details[2].label = <<"u", "n", "k", "n", "o", "w", "n">>
    /\ eng.details[2].score = 0

\* len() of the texts the content items carry
StrLen(str) ==
    CASE str = "" -> 0
      [] str \in {"Body one", "Body two", "Body six"} -> 8
      [] str \in {"Title one", "Title two", "Title six"} -> 9
      [] str = "Title four" -> 10
      [] str = "Title three" -> 11

C11_Present(value) == value \notin {Absent, PyNone, ""}

\* the text the claim hands to the classifier for an item that has no
\* short description: the body if it is there and not shorter than the
\* title, else the title, else nothing (PyNone)
C11_Choice(item) ==
    IF /\ C11_Present(item.full_text)
       /\ (C11_Present(item.headline) => StrLen(item.full_text) >= StrLen(item.headline))
    THEN item.full_text
    ELSE IF C11_Present(item.headline) THEN item.headline
    ELSE PyNone

C11_Chosen(item) == C11_Choice(item) # PyNone

\* the pipeline was there and did not raise
AnalysisRan == AnalysisDone /\ eng.instance = "loaded" /\ model_out # Raises

\* C11: the text analyzed for an item is its body if present and at least
\* as long as the title, else its description, else its title; an item is
\* skipped only when it has none of them, so an item with an empty body and
\* a title is analyzed on its title.
C11_TextByPriority ==
    AnalysisRan =>
        LET chosen == SelectSeq(fetched, C11_Chosen)
        IN /\ Len(eng.details) = Len(chosen)
           /\ eng.impl = "prototype" =>
                 \A i \in 1..Len(chosen) :
                     eng.details[i].full_text_analyzed[1] = C11_Choice(chosen[i])

\* the service was handed one item with an empty body and a title, and
\* analyzed nothing
C11_Witness ==
    /\ AnalysisRan
    /\ eng.impl = "service"
    /\ Len(fetched) = 1
    /\ fetched[1].full_text = ""
    /\ fetched[1].headline = "Title four"
    /\ eng.details = <<>>

Aggregated == eng # None /\ eng.op = "aggregate"

\* the timestamp conditions of the claim: missing, malformed, not a string
C18_BadTimestamp(p) == p.kind \in {"none", "bad", "epoch"}

\* the same items with every such timestamp taken as missing, which gives
\* an item the recency weight 0.1
C18_Sanitized(items) ==
    [i \in 1..Len(items) |->
        [items[i] EXCEPT !.publishedAt =
            IF C18_BadTimestamp(items[i].publishedAt) THEN Missing ELSE @]]

C18_ExpectedLabel(label) ==
    label \in {<<"p", "o", "s", "i", "t", "i", "v", "e">>,
               <<"n", "e", "g", "a", "t", "i", "v", "e">>,
               <<"n", "e", "u", "t", "r", "a", "l">>}

\* C18: data-quality conditions never raise and take their fallback: an
\* item without usable text is skipped, an item with an unexpected label
\* scores 0.0, and an item whose timestamp is missing, malformed or not a
\* string is aggregated with recency weight 0.1.
C18_DataQualityFallbacks ==
    /\ (AnalysisRan /\ model_out.kind = "results") =>
          /\ Len(eng.details) = Len(Kept(fetched))
          /\ \A i \in 1..Len(eng.details) :
                 ~C18_ExpectedLabel(eng.details[i].label) => eng.details[i].score = 0
    /\ Aggregated =>
          /\ eng.outcome.kind = "return"
          /\ RatEq(eng.outcome.score,
                   AggregateOf(eng.impl, C18_Sanitized(eng.details)))

\* the service aggregated an analyzed item whose publishedAt is a number,
\* and raised
C18_Witness ==
    /\ Aggregated
    /\ eng.impl = "service"
    /\ Len(eng.details) = 1
    /\ eng.details[1].publishedAt.kind = "epoch"
    /\ eng.outcome.kind = "raise"

\* the item has neither URL nor provider id
LacksIdentifier(item) ==
    Get(item, "id", PyNone) = PyNone /\ Get(item, "url", PyNone) = PyNone

HasIdentifier(item) == ~LacksIdentifier(item)

\* C19: a content item without identifier is skipped: the analyzed items
\* are those of the items that have an identifier (and text), in order, so
\* no analyzed item stems from an item without identifier.
C19_ItemWithoutIdentifierSkipped ==
    (AnalysisRan /\ model_out.kind = "results") =>
        /\ Len(eng.details) = Len(SelectSeq(Kept(fetched), HasIdentifier))
        /\ \A i \in 1..Len(eng.details) : eng.details[i].url # PyNone

\* the service analyzed a batch of an item without identifier and one with,
\* and produced an analyzed item for each
C19_Witness ==
    /\ AnalysisRan
    /\ eng.impl = "service"
    /\ Len(fetched) = 2
    /\ LacksIdentifier(fetched[1])
    /\ HasIdentifier(fetched[2])
    /\ Len(eng.details) = 2
    /\ eng.details[1].source_specific_id = PyNone
    /\ eng.details[1].url = PyNone

\* C20: with classifier confidences in [0, 1], every analyzed item has a
\* label among positive, negative and neutral and a score in [-1, 1],
\* whatever label the classifier returned.
C20_LabelAndScoreInRange ==
    (AnalysisDone /\ eng.details # <<>>
       /\ \A i \in 1..Len(model_out.results) :
              model_out.results[i].score >= 0 /\ model_out.results[i].score <= ScoreDen) =>
        \A i \in 1..Len(eng.details) :
            /\ C18_ExpectedLabel(eng.details[i].label)
            /\ eng.details[i].score >= -ScoreDen
            /\ eng.details[i].score <= ScoreDen

\* an analyzed item that carries the classifier's unexpected label
C20_Witness ==
    /\ AnalysisDone
    /\ Len(eng.details) = 1
    /\ model_out.results[1].score = 50
    /\ eng.details[1].label = <<"u", "n", "k", "n", "o", "w", "n">>
    /\ eng.details[1].score = 0

\* the code's test for usable text: the body when the item has the key,
\* else the headline, neither None nor empty
C23_Usable(item) ==
    IF item.full_text # Absent THEN item.full_text \notin {PyNone, ""}
    ELSE item.headline \notin {Absent, PyNone, ""}

\* the position in the fetched list of the i-th item with usable text
C23_Position(i) ==
    CHOOSE j \in 1..Len(fetched) :
        /\ C23_Usable(fetched[j])
        /\ Cardinality({k \in 1..j : C23_Usable(fetched[k])}) = i

C23_Combines(detail, item, result) ==
    /\ detail.label = lower(result.label)
    /\ Abs(detail.score) \in {0, result.score}
    /\ item.headline # Absent => detail.headline = item.headline
    /\ detail.url = (IF item.url = Absent THEN PyNone ELSE item.url)
    /\ detail.publishedAt = item.publishedAt
    /\ detail.source_name = item.source_name

\* C23: classifier results are attached in order: the i-th result is
\* combined with the headline, url, timestamp and source of the i-th item
\* that had usable text, whatever items without text precede it, and there
\* are as many analyzed items as items with usable text.
C23_ResultsAttachedInOrder ==
    (AnalysisRan /\ model_out.kind = "results") =>
        /\ Len(eng.details) = Cardinality({k \in 1..Len(fetched) : C23_Usable(fetched[k])})
        /\ \A i \in 1..Len(eng.details) :
              C23_Combines(eng.details[i], fetched[C23_Position(i)], model_out.results[i])

\* an item without text came first and the one result went to the item
\* behind it
C23_Witness ==
    /\ AnalysisRan
    /\ model_out.kind = "results"
    /\ Len(fetched) = 2
    /\ ~C23_Usable(fetched[1])
    /\ Len(eng.details) = 1
    /\ eng.details[1].url = fetched[2].url
    /\ eng.details[1].url = "u1"

----------------------------------------------------------------------------
(* The relevance filter.  A text is a sequence of characters; the regular  *)
(* expressions are computed as re.findall computes them: a scan from the   *)
(* left that takes the first alternative matching at a position and goes   *)
(* on behind the match.                                                    *)

MaxText == 3

MIN_ARTICLE_LENGTH_FOR_ANALYSIS == 200
MIN_TICKER_MENTIONS_FOR_RELEVANCE == 2
SVC_MIN_LEN == 100
SVC_MIN_MENTIONS == 1

\* \w for the characters of the texts
IsWordChar(c) == c \in {"a", "A", "b", "B"}

\* is the character at index i (0 and Len + 1 are outside the text) a word
\* character
WordAt(text, i) == i >= 1 /\ i <= Len(text) /\ IsWordChar(text[i])

\* \b between the characters i and i + 1
Boundary(text, i) == WordAt(text, i) # WordAt(text, i + 1)

\* re.escape(literal) under re.IGNORECASE at index `start`
MatchesLiteral(text, start, literal) ==
    /\ start + Len(literal) - 1 <= Len(text)
    /\ \A j \in 1..Len(literal) : LowerChar(text[start + j - 1]) = LowerChar(literal[j])

\* \bT\b at `start`: the length of the match, 0 for none
WordMatch(text, start, literal) ==
    IF /\ Boundary(text, start - 1)
       /\ MatchesLiteral(text, start, literal)
       /\ Boundary(text, start + Len(literal) - 1)
    THEN Len(literal) ELSE 0

\* \$T\b at `start`
CashtagMatch(text, start, literal) ==
    IF /\ text[start] = "$"
       /\ MatchesLiteral(text, start + 1, literal)
       /\ Boundary(text, start + Len(literal))
    THEN Len(literal) + 1 ELSE 0

\* \bT\b|\$T\b at `start`
TickerMatch(text, start, literal) ==
    IF WordMatch(text, start, literal) > 0 THEN WordMatch(text, start, literal)
    ELSE CashtagMatch(text, start, literal)

\* the pattern at `start`: the length of the match, 0 for none
MatchLength(kind, text, start, literal) ==
    IF kind = "ticker" THEN TickerMatch(text, start, literal)
    ELSE WordMatch(text, start, literal)

\* the indices from `start` on at which the pattern matches
MatchStarts(kind, text, start, literal) ==
    {s \in start..Len(text) : MatchLength(kind, text, s, literal) > 0}

\* len(re.findall(pattern, text)) from index `start` on: the leftmost
\* match is taken and the scan goes on behind it
RECURSIVE FindAll(_, _, _, _)
FindAll(kind, text, start, literal) ==
    LET starts == MatchStarts(kind, text, start, literal)
    IN IF starts = {} THEN 0
       ELSE LET first == CHOOSE s \in starts : \A o \in starts : s <= o
            IN 1 + FindAll(kind, text, first + MatchLength(kind, text, first, literal),
                           literal)

Mentions(text, ticker_symbol, company_name) ==
    FindAll("ticker", text, 1, ticker_symbol)
    + (IF company_name # <<>> /\ Len(company_name) > 2
       THEN FindAll("company", text, 1, company_name) ELSE 0)

\* data_fetcher.is_article_relevant
is_article_relevant(text_content, ticker_symbol, company_name) ==
    IF text_content = <<>> \/ Len(text_content) < MIN_ARTICLE_LENGTH_FOR_ANALYSIS
    THEN FALSE
    ELSE Mentions(text_content, ticker_symbol, company_name)
            >= MIN_TICKER_MENTIONS_FOR_RELEVANCE

\* data_fetcher_service._is_relevant
is_relevant(text_content, ticker_symbol, company_name, min_len, min_mentions) ==
    IF text_content = <<>> \/ Len(text_content) < min_len
    THEN FALSE
    ELSE Mentions(text_content, ticker_symbol, company_name) >= min_mentions

Alphabet == {"a", "A", "b", "$", ".", " "}

\* the part of an article that can mention the ticker or the company
Contents == UNION {[1..k -> Alphabet] : k \in 0..MaxText}

\* the rest of the article, as many blanks: nothing, or enough to bring a
\* content of MaxText characters to exactly the required length
Pads == {0, SVC_MIN_LEN - MaxText, MIN_ARTICLE_LENGTH_FOR_ANALYSIS - MaxText}

Tickers == {<<"A">>}

\* no name, a name of two characters, a name that ends in a full stop (as
\* in "Apple Inc.") and a name that is a plain word
Companies == {<<>>, <<"A", "b">>, <<"A", "b", ".">>, <<"A", "b", "b">>}

\* the company name when none is known: the ticker symbol itself (app.py
\* line 186, stocks.py line 53), here one longer than two characters
FallbackArticles ==
    [content : Contents, pad : Pads, ticker : {<<"A", "b", "b">>},
     company : {<<"A", "b", "b">>}]

Articles ==
    [content : Contents, pad : Pads, ticker : Tickers, company : Companies]
    \cup FallbackArticles

TextOfArticle(a) == a.content \o [i \in 1..a.pad |-> " "]

InitRel ==
    /\ ExtIdle
    /\ AggIdle
    /\ ClsIdle
    /\ SelIdle
    /\ EngIdle
    /\ article \in Articles
    /\ relevant = None

RelevanceCall(impl, min_len, min_mentions, result) ==
    [impl |-> impl, min_len |-> min_len, min_mentions |-> min_mentions,
     result |-> result]

IsArticleRelevant ==
    /\ relevant' = RelevanceCall("prototype", MIN_ARTICLE_LENGTH_FOR_ANALYSIS,
                                 MIN_TICKER_MENTIONS_FOR_RELEVANCE,
                                 is_article_relevant(TextOfArticle(article),
                                                     article.ticker, article.company))
    /\ UNCHANGED <<extVars, aggVars, clsVars, engVars, selVars, article>>

\* _is_relevant as fetch_news_data_service and fetch_reddit_data_service call it
IsRelevant ==
    /\ relevant' = RelevanceCall("service", SVC_MIN_LEN, SVC_MIN_MENTIONS,
                                 is_relevant(TextOfArticle(article), article.ticker,
                                             article.company, SVC_MIN_LEN,
                                             SVC_MIN_MENTIONS))
    /\ UNCHANGED <<extVars, aggVars, clsVars, engVars, selVars, article>>

NextRel ==
    \/ IsArticleRelevant
    \/ IsRelevant

SpecRel == InitRel /\ [][NextRel]_vars

----------------------------------------------------------------------------
(* Claims about the relevance filter *)

\* the literal stands at `start`, whatever the case of the letters
C10_OccursAt(text, start, literal) ==
    /\ start + Len(literal) - 1 <= Len(text)
    /\ \A j \in 1..Len(literal) : lower(<<text[start + j - 1]>>) = lower(<<literal[j]>>)

C10_IsWord(text, i) ==
    i >= 1 /\ i <= Len(text) /\ text[i] \notin {"$", ".", " "}

\* an occurrence that is not part of a longer word
C10_WholeWordAt(text, start, literal) ==
    /\ C10_OccursAt(text, start, literal)
    /\ ~C10_IsWord(text, start - 1)
    /\ ~C10_IsWord(text, start + Len(literal))

\* whole-word occurrences of the ticker; a cashtag is the ticker behind a
\* "$", itself a whole-word occurrence, so it is counted with them
C10_TickerMentions(text, ticker) ==
    Cardinality({s \in 1..Len(text) :
        \/ C10_WholeWordAt(text, s, ticker)
        \/ /\ s > 1
           /\ text[s - 1] = "$"
           /\ C10_OccursAt(text, s, ticker)
           /\ ~C10_IsWord(text, s + Len(ticker))})

C10_CompanyMentions(text, company) ==
    IF Len(company) > 2
    THEN Cardinality({s \in 1..Len(text) : C10_WholeWordAt(text, s, company)})
    ELSE 0

\* C10: the filter answers true exactly when the text is non-empty, has at
\* least min_length characters and mentions the ticker (whole word or
\* cashtag, any case) and the company name (whole word, names longer than
\* two characters only) at least min_mentions times in sum.
C10_RelevantIffEnoughMentions ==
    relevant # None =>
        LET text == TextOfArticle(article)
        IN relevant.result =
              (/\ text # <<>>
               /\ Len(text) >= relevant.min_len
               /\ C10_TickerMentions(text, article.ticker)
                    + C10_CompanyMentions(text, article.company)
                    >= relevant.min_mentions)

\* the service judged a long enough article that names the company, and
\* nothing else, as not relevant
C10_Witness ==
    /\ relevant # None
    /\ relevant.impl = "service"
    /\ article.company = <<"A", "b", ".">>
    /\ article.content = <<"a", "b", ".">>
    /\ Len(TextOfArticle(article)) >= relevant.min_len
    /\ relevant.result = FALSE

\* the company name is the ticker symbol
C29_NameIsTicker == lower(article.company) = lower(article.ticker)

\* C29: each occurrence in the text contributes at most one mention, also
\* when the company name is the ticker symbol (no company name known): a
\* text that contains the symbol exactly once has mention count 1 and is
\* not relevant under min_mentions = 2.
C29_OccurrenceCountedOnce ==
    (relevant # None /\ C29_NameIsTicker
       /\ C10_TickerMentions(TextOfArticle(article), article.ticker) = 1) =>
        /\ Mentions(TextOfArticle(article), article.ticker, article.company) = 1
        /\ relevant.min_mentions = 2 => relevant.result = FALSE

\* the service, which asks for one mention, found an article that names
\* the symbol once relevant
C29_Witness ==
    /\ relevant # None
    /\ relevant.impl = "service"
    /\ C29_NameIsTicker
    /\ article.content = <<"a", "b", "b">>
    /\ Len(TextOfArticle(article)) >= relevant.min_len
    /\ relevant.result = TRUE

----------------------------------------------------------------------------
(* The justification selectors on their own (SpecSelect) *)

MaxSelect == 3

\* hundredths: around the significance thresholds 0.1 and -0.1, around the
\* 0.05 of the prototype's neutral pick, and ties in absolute value
SelectScores == {-30, -11, -10, -1, 1, 2, 7, 8, 10, 30}

\* the i-th analyzed item of a list: its own headline and url
SelectItem(i, score) ==
    [headline |-> <<"headline", i>>, url |-> <<"url", i>>,
     source_name |-> "Reuters", score |-> score]

SelectLists ==
    UNION {{[i \in 1..k |-> SelectItem(i, scores[i])] : scores \in [1..k -> SelectScores]} :
               k \in 0..MaxSelect}

InitSelect ==
    /\ ExtIdle
    /\ AggIdle
    /\ ClsIdle
    /\ EngIdle
    /\ RelIdle
    /\ selInput \in SelectLists
    /\ selCall = None

GetValidationPoints ==
    /\ selCall' = [impl |-> "prototype", points |-> get_validation_points(selInput)]
    /\ UNCHANGED <<extVars, aggVars, clsVars, engVars, relVars, selInput>>

ExtractValidationPoints ==
    /\ selCall' = [impl |-> "service", points |-> extract_validation_points(selInput)]
    /\ UNCHANGED <<extVars, aggVars, clsVars, engVars, relVars, selInput>>

NextSelect ==
    \/ GetValidationPoints
    \/ ExtractValidationPoints

SpecSelect == InitSelect /\ [][NextSelect]_vars

----------------------------------------------------------------------------
(* Claims about the justification selectors *)

Selected == selCall # None

\* the category of a point: the prototype marks its 'Neutral/Mix' and
\* 'Neutral' lines with the same neutral marker
C12_Category(point) ==
    IF point.type \in {"neutral", "neutral_mix", "no_data"} THEN "neutral"
    ELSE point.type

\* C12: for an empty list of analyzed items the selector returns exactly
\* one synthetic neutral point that signals 'no data', not an empty list.
C12_EmptyInputGivesNoDataPoint ==
    (Selected /\ selInput = <<>>) =>
        /\ Len(selCall.points) = 1
        /\ selCall.points[1].type = "no_data"

\* the service selector was called with no items and returned no point
C12_Witness ==
    /\ Selected
    /\ selCall.impl = "service"
    /\ selInput = <<>>
    /\ selCall.points = <<>>

MaxScore(items) == CHOOSE m \in {items[i].score : i \in 1..Len(items)} :
                       \A i \in 1..Len(items) : items[i].score <= m

MinScore(items) == CHOOSE m \in {items[i].score : i \in 1..Len(items)} :
                       \A i \in 1..Len(items) : items[i].score >= m

\* how many of the two significance checks (maximum above 0.1, minimum
\* below -0.1) produce a point
SignificantCount(items) ==
    (IF MaxScore(items) > 10 THEN 1 ELSE 0) + (IF MinScore(items) < -10 THEN 1 ELSE 0)

\* the first item, in input order, among those of smallest absolute score
ClosestToZero(items) ==
    CHOOSE i \in 1..Len(items) :
        /\ \A j \in 1..Len(items) : Abs(items[i].score) <= Abs(items[j].score)
        /\ \A j \in 1..(i - 1) : Abs(items[j].score) # Abs(items[i].score)

NeutralPoints(points) ==
    {k \in 1..Len(points) : C12_Category(points[k]) = "neutral"}

\* C13: when the two significance checks yield fewer than 2 points for a
\* non-empty input, the result also holds one neutral point, taken from the
\* item of smallest absolute score, the first such item in input order.
C13_NeutralFallbackFromClosest ==
    (Selected /\ selInput # <<>> /\ SignificantCount(selInput) < 2) =>
        /\ Cardinality(NeutralPoints(selCall.points)) = 1
        /\ \A k \in NeutralPoints(selCall.points) :
               selCall.points[k].url = selInput[ClosestToZero(selInput)].url

\* the prototype selector had one significant item and one near zero, and
\* returned the positive point alone
C13_Witness ==
    /\ Selected
    /\ selCall.impl = "prototype"
    /\ Len(selInput) = 2
    /\ selInput[1].score = 30
    /\ selInput[2].score = 1
    /\ Len(selCall.points) = 1
    /\ selCall.points[1].type = "positive"

\* no score above 0.1 and none below -0.1
AllInBand(items) == \A i \in 1..Len(items) : items[i].score <= 10 /\ items[i].score >= -10

\* the item a point refers to: the index of its url in the input
ItemOf(items, point) == CHOOSE i \in 1..Len(items) : items[i].url = point.url

\* C14: for a non-empty list whose scores all lie within the significance
\* band the selector returns exactly one point, a neutral one, referring to
\* an item of smallest absolute score.
C14_AllInBandGivesOneNeutral ==
    (Selected /\ selInput # <<>> /\ AllInBand(selInput)) =>
        /\ Len(selCall.points) = 1
        /\ C12_Category(selCall.points[1]) = "neutral"
        /\ \A j \in 1..Len(selInput) :
               Abs(selInput[ItemOf(selInput, selCall.points[1])].score)
                   <= Abs(selInput[j].score)

\* the prototype selector, given 0.08 and 0.07, referred to the 0.08 item
C14_Witness ==
    /\ Selected
    /\ selCall.impl = "prototype"
    /\ Len(selInput) = 2
    /\ selInput[1].score = 8
    /\ selInput[2].score = 7
    /\ Len(selCall.points) = 1
    /\ selCall.points[1].url = selInput[1].url

\* C15: when the maximum score exceeds 0.1 and the minimum score is below
\* -0.1 the selector returns exactly 2 points: the positive point of a
\* maximum-score item, then the negative point of a minimum-score item, and
\* no neutral point.
C15_TwoSignificantPointsOnly ==
    (Selected /\ selInput # <<>> /\ SignificantCount(selInput) = 2) =>
        /\ Len(selCall.points) = 2
        /\ selCall.points[1].type = "positive"
        /\ selInput[ItemOf(selInput, selCall.points[1])].score = MaxScore(selInput)
        /\ selCall.points[1].score = MaxScore(selInput)
        /\ selCall.points[2].type = "negative"
        /\ selInput[ItemOf(selInput, selCall.points[2])].score = MinScore(selInput)
        /\ selCall.points[2].score = MinScore(selInput)

\* the service selector was given 0.3, -0.3 and a near-zero item
C15_Witness ==
    /\ Selected
    /\ selCall.impl = "service"
    /\ Len(selInput) = 3
    /\ selInput[1].score = 30
    /\ selInput[2].score = -30
    /\ selInput[3].score = 1
    /\ Len(selCall.points) = 2

\* C16: the selector returns at most 3 points, and no two of them refer to
\* the same analyzed item.
C16_AtMostThreeDistinctItems ==
    Selected =>
        /\ Len(selCall.points) <= 3
        /\ selInput # <<>> =>
              \A k, l \in 1..Len(selCall.points) :
                  k # l => selCall.points[k].url # selCall.points[l].url

\* the service selector was given a single significant item and returned
\* it twice, as the positive and as the neutral point
C16_Witness ==
    /\ Selected
    /\ selCall.impl = "service"
    /\ Len(selInput) = 1
    /\ selInput[1].score = 30
    /\ Len(selCall.points) = 2
    /\ selCall.points[1].type = "positive"
    /\ selCall.points[2].type = "neutral"
    /\ selCall.points[1].url = selCall.points[2].url

\* C17: in every result a positive point has a score strictly above 0.1
\* and a negative point a score strictly below -0.1.
C17_SignificantPointsBeyondThresholds ==
    Selected =>
        \A k \in 1..Len(selCall.points) :
            /\ selCall.points[k].type = "positive" => selCall.points[k].score > 10
            /\ selCall.points[k].type = "negative" => selCall.points[k].score < -10

\* a result with a positive and a negative point, from a list that also
\* holds scores of exactly 0.1 or -0.1
C17_Witness ==
    /\ Selected
    /\ \E i \in 1..Len(selInput) : selInput[i].score \in {10, -10}
    /\ \E k \in 1..Len(selCall.points) : selCall.points[k].type = "positive"
    /\ \E k \in 1..Len(selCall.points) : selCall.points[k].type = "negative"

\* the neutral points that refer to an item (the 'no data' line refers to none)
ItemNeutralPoints(points) ==
    {k \in NeutralPoints(points) : points[k].type # "no_data"}

InBand(score) == score <= 10 /\ score >= -10

\* C30: every neutral point refers to an item whose score lies within the
\* significance band (absolute value at most 0.1).
C30_NeutralPointWithinBand ==
    Selected =>
        \A k \in ItemNeutralPoints(selCall.points) :
            InBand(selInput[ItemOf(selInput, selCall.points[k])].score)

\* C30 (amended): a neutral point refers to an item within the significance
\* band whenever the input holds such an item, and always in the prototype;
\* the service's neutral point refers to the item of smallest absolute
\* score, first in input order, which is significant when every item is.
C30_NeutralPointWithinBandIfAny ==
    Selected =>
        \A k \in ItemNeutralPoints(selCall.points) :
            LET i == ItemOf(selInput, selCall.points[k])
            IN /\ (selCall.impl = "prototype"
                      \/ \E j \in 1..Len(selInput) : InBand(selInput[j].score))
                   => InBand(selInput[i].score)
               /\ selCall.impl = "service" => i = ClosestToZero(selInput)
               /\ selCall.points[k].score = selInput[i].score

\* the service selector, given 0.30 and then 0.01, returned the positive
\* point of the first item and the neutral point of the second
C30_Witness ==
    /\ Selected
    /\ selCall.impl = "service"
    /\ Len(selInput) = 2
    /\ selInput[1].score = 30
    /\ selInput[2].score = 1
    /\ Len(selCall.points) = 2
    /\ selCall.points[2].type = "neutral"
    /\ selCall.points[2].url = selInput[2].url

----------------------------------------------------------------------------
(* The prototype's SQLite store (database.py).  A table is the set of its  *)
(* rows; a column holds NULL (None) or a value (Col).  NewsMediaItems.url  *)
(* is UNIQUE, RedditItems.reddit_id is the primary key and RedditItems.url *)
(* is UNIQUE, so INSERT OR IGNORE drops a row that collides on them.       *)

Col(v) == [kind |-> "value", v |-> v]

IsNull(c) == c = None

\* result.get(key): None when the dict has no such key
DictGet(d, key) == IF key \in DOMAIN d THEN d[key] ELSE PyNone

\* `'news' in source_type` / `'reddit' in source_type`, on the source types
\* the fetchers write
TableOf(source_type) ==
    CASE source_type = "news" -> "NewsMediaItems"
      [] source_type \in {"reddit_post", "reddit_comment"} -> "RedditItems"
      [] OTHER -> "none"

NewsRow(ticker_symbol, item) ==
    [ticker |-> ticker_symbol, headline |-> Get(item, "headline", "N/A"),
     url |-> item.url, sentiment_score |-> None, sentiment_label |-> None]

RedditRow(ticker_symbol, item) ==
    [reddit_id |-> item.id, ticker |-> ticker_symbol,
     title_text |-> Get(item, "headline", PyNone), url |-> item.url,
     sentiment_score |-> None, sentiment_label |-> None]

\* INSERT OR IGNORE INTO NewsMediaItems
InsertNews(table, row) ==
    IF \E r \in table : r.url = row.url THEN table ELSE table \cup {row}

\* INSERT OR IGNORE INTO RedditItems
InsertReddit(table, row) ==
    IF \E r \in table : r.reddit_id = row.reddit_id \/ r.url = row.url
    THEN table ELSE table \cup {row}

RECURSIVE _save_news_media_items_internal(_, _, _)
_save_news_media_items_internal(table, ticker_symbol, news_items) ==
    IF news_items = <<>> THEN table
    ELSE LET item == Head(news_items)
             next == IF Falsy(Get(item, "url", PyNone)) THEN table
                     ELSE InsertNews(table, NewsRow(ticker_symbol, item))
         IN _save_news_media_items_internal(next, ticker_symbol, Tail(news_items))

RECURSIVE _save_reddit_items_internal(_, _, _)
_save_reddit_items_internal(table, ticker_symbol, reddit_items) ==
    IF reddit_items = <<>> THEN table
    ELSE LET item == Head(reddit_items)
             next == IF Falsy(Get(item, "id", PyNone)) \/ Falsy(Get(item, "url", PyNone))
                     THEN table
                     ELSE InsertReddit(table, RedditRow(ticker_symbol, item))
         IN _save_reddit_items_internal(next, ticker_symbol, Tail(reddit_items))

IsNewsItem(item) == TableOf(Get(item, "source_type", "unknown")) = "NewsMediaItems"

IsRedditItem(item) == TableOf(Get(item, "source_type", "unknown")) = "RedditItems"

\* database.save_content_items: the tables after the call
save_content_items(tables, ticker_symbol, content_items_list) ==
    [NewsMediaItems |->
        _save_news_media_items_internal(tables.NewsMediaItems, ticker_symbol,
                                        SelectSeq(content_items_list, IsNewsItem)),
     RedditItems |->
        _save_reddit_items_internal(tables.RedditItems, ticker_symbol,
                                    SelectSeq(content_items_list, IsRedditItem))]

\* database.save_stock_info on a ticker that has its Stocks row: INSERT OR
\* REPLACE deletes the row and inserts the new one, and the delete cascades
\* to the item rows that reference it (ON DELETE CASCADE, lines 52 and 76)
save_stock_info(tables, ticker) ==
    [NewsMediaItems |-> {row \in tables.NewsMediaItems : row.ticker # ticker},
     RedditItems |-> {row \in tables.RedditItems : row.ticker # ticker}]

\* the identifier an analysis result is matched on (lines 252-268)
item_identifier(result) ==
    IF TableOf(DictGet(result, "source_type")) = "NewsMediaItems"
       /\ Falsy(DictGet(result, "source_specific_id"))
    THEN DictGet(result, "url")
    ELSE DictGet(result, "source_specific_id")

\* the (score, label, identifier) tuples collected for a table, in order
UpdatesFor(table_name, analyzed_results_list) ==
    LET Wanted(result) ==
            /\ TableOf(DictGet(result, "source_type")) = table_name
            /\ item_identifier(result) # PyNone
    IN SelectSeq(analyzed_results_list, Wanted)

\* UPDATE ... SET everywhere, the NULL test of the WHERE clause dropped
ApplyUpdate_Always(row, id, updates) ==
    IF \E i \in 1..Len(updates) : item_identifier(updates[i]) = id
    THEN LET last == CHOOSE i \in 1..Len(updates) :
                        /\ item_identifier(updates[i]) = id
                        /\ \A j \in 1..Len(updates) :
                              item_identifier(updates[j]) = id => j <= i
         IN [row EXCEPT !.sentiment_score = Col(updates[last].score),
                        !.sentiment_label = Col(updates[last].label)]
    ELSE row

\* executemany of `UPDATE t SET sentiment_score = ?, sentiment_label = ?
\* WHERE id_col = ? AND (sentiment_score IS NULL OR sentiment_label IS
\* NULL)` on one row whose id_col is id: the first matching tuple sets the
\* row, after which the row matches no later tuple
ApplyUpdate(row, id, updates) ==
    IF (IsNull(row.sentiment_score) \/ IsNull(row.sentiment_label))
       /\ \E i \in 1..Len(updates) : item_identifier(updates[i]) = id
    THEN LET first == CHOOSE i \in 1..Len(updates) :
                         /\ item_identifier(updates[i]) = id
                         /\ \A j \in 1..Len(updates) :
                               item_identifier(updates[j]) = id => i <= j
         IN [row EXCEPT !.sentiment_score = Col(updates[first].score),
                        !.sentiment_label = Col(updates[first].label)]
    ELSE row

\* database.update_sentiment_for_items: the tables after the call
update_sentiment_for_items(tables, analyzed_results_list) ==
    [NewsMediaItems |->
        {ApplyUpdate(row, row.url, UpdatesFor("NewsMediaItems", analyzed_results_list)) :
            row \in tables.NewsMediaItems},
     RedditItems |->
        {ApplyUpdate(row, row.reddit_id, UpdatesFor("RedditItems", analyzed_results_list)) :
            row \in tables.RedditItems}]

----------------------------------------------------------------------------
(* Concurrent sentiment requests.  The service serves requests once the    *)
(* lifespan handler has run load_sentiment_model (main.py); every request  *)
(* reads the global pipeline instance and keeps everything else in local   *)
(* variables.  A prototype session runs perform_analysis (app.py), which   *)
(* writes the shared tables and its own session state.  A request is cut   *)
(* into steps at each call it makes, so that the steps of two requests     *)
(* interleave in every order.                                              *)

MaxBatch == 1

\* the two requests in flight
RequestIds == {1, 2}

\* what get_us_news and fetch_reddit_data build
NewsItem(url, headline, full_text, publishedAt) ==
    [id |-> Absent, url |-> url, headline |-> headline, full_text |-> full_text,
     publishedAt |-> publishedAt, source_name |-> "Reuters", source_type |-> "news"]

RedditItem(id, url, source_type, headline, full_text, publishedAt) ==
    [id |-> id, url |-> url, headline |-> headline,
     full_text |-> full_text, publishedAt |-> publishedAt,
     source_name |-> "r/stocks", source_type |-> source_type]

\* datetime.isoformat() of an aware UTC datetime ends in +00:00 and parses
\* to the same instant as the 'Z' form
RequestItems ==
    {NewsItem("u1", "Title one", "Body one", IsoNaive(Now0)),
     RedditItem("r1", "https://reddit.com/r1", "reddit_post", "Post one", "Post one. Body", IsoZ(Now0 - TickHours))}

RequestResults ==
    {Result(<<"P", "O", "S", "I", "T", "I", "V", "E">>, 95),
     Result(<<"n", "e", "g", "a", "t", "i", "v", "e">>, 60)}

RequestOutcomes(content) ==
    IF Kept(content) = <<>> THEN {NotCalled}
    ELSE {[kind |-> "results", results |-> rs] :
             rs \in [1..Len(Kept(content)) -> RequestResults]}

NoResult == [kind |-> "None"]

\* app.perform_analysis from the fetched content on: the tables it leaves
\* and the dict it returns and stores in its session state (None when
\* nothing was fetched or analyzed).  The module's pipeline is loaded: the
\* script stops at line 43 otherwise.
perform_analysis(tables, current_ticker_sym, fetched_content, outcome, t) ==
    IF fetched_content = <<>> THEN [tables |-> tables, result |-> NoResult]
    ELSE LET saved == save_content_items(tables, current_ticker_sym, fetched_content)
             analyzed_item_details ==
                 analyze_sentiment_for_ticker(fetched_content, "loaded", outcome)
             final_score == calculate_weighted_sentiment(analyzed_item_details, t)
         IN IF analyzed_item_details = <<>>
            THEN [tables |-> saved, result |-> NoResult]
            ELSE [tables |-> update_sentiment_for_items(saved, analyzed_item_details),
                  result |-> [kind |-> "analysis_data",
                              final_score |-> final_score,
                              analyzed_details |-> analyzed_item_details,
                              suggestion |-> get_suggestion(final_score),
                              validation_points |-> get_validation_points(analyzed_item_details),
                              ticker |-> current_ticker_sym]]

Request(impl, fetched_content, outcome) ==
    [impl |-> impl, pc |-> "pending", fetched_content |-> fetched_content,
     outcome |-> outcome, details |-> <<>>, result |-> None]

Requests ==
    {Request(impl, content, outcome) :
        impl \in {"prototype", "service"},
        <<content, outcome>> \in
            UNION {{<<c, o>> : o \in RequestOutcomes(c)} :
                      c \in ListsOf(RequestItems, MaxBatch)}}

InitConc ==
    /\ AggIdle
    /\ ClsIdle
    /\ SelIdle
    /\ EngIdle
    /\ RelIdle
    /\ FetIdle
    /\ DbIdle
    /\ WishIdle
    /\ reqs \in [RequestIds -> Requests]

\* analyzed_details as a module-level list that every call of the same
\* program writes
AssignDetails_ModuleLevel(rs, r, details, pc) ==
    [q \in DOMAIN rs |->
        IF q = r THEN [rs[q] EXCEPT !.details = details, !.pc = pc]
        ELSE IF rs[q].impl = rs[r].impl THEN [rs[q] EXCEPT !.details = details]
        ELSE rs[q]]

\* `analyzed_details = ...` (stocks.py:84), `analyzed_item_details = ...`
\* (app.py:145): a local variable of the call
AssignDetails(rs, r, details, pc) ==
    [rs EXCEPT ![r].details = details, ![r].pc = pc]

Finish(rs, r, result) == [rs EXCEPT ![r].result = result, ![r].pc = "done"]

\* main.lifespan: the model is loaded, or fails to load, before the first
\* request is served
Lifespan ==
    /\ \A r \in RequestIds : reqs[r].pc = "pending"
    /\ \E ok \in BOOLEAN : pipeline' = IF ok THEN "loaded" ELSE "None"
    /\ reqs' = [r \in RequestIds |-> [reqs[r] EXCEPT !.pc = "start"]]
    /\ UNCHANGED <<aggVars, clsVars, relVars, selVars, fetched, model_out, eng>>
    /\ UNCHANGED <<fetVars, dbVars, wishVars>>

\* get_stock_sentiment, lines 76-89: the 404, the analysis, the 500
ServiceAnalyze(r) ==
    /\ reqs[r].impl = "service"
    /\ reqs[r].pc = "start"
    /\ LET analyzed_details ==
               analyze_content_sentiment(reqs[r].fetched_content, pipeline, reqs[r].outcome)
       IN reqs' = IF reqs[r].fetched_content = <<>> THEN Finish(reqs, r, HttpError(404))
                  ELSE IF analyzed_details = <<>> THEN Finish(reqs, r, HttpError(500))
                  ELSE AssignDetails(reqs, r, analyzed_details, "analyzed")
    /\ UNCHANGED <<aggVars, clsVars, engVars, relVars, selVars>>
    /\ UNCHANGED <<fetVars, dbVars, wishVars>>

\* get_stock_sentiment, lines 91-109
ServiceRespond(r) ==
    /\ reqs[r].impl = "service"
    /\ reqs[r].pc = "analyzed"
    /\ LET analyzed_details == reqs[r].details
           final_score == calculate_final_sentiment_score(analyzed_details, now)
       IN reqs' = Finish(reqs, r,
                     [kind |-> "response",
                      aggregated_score |-> final_score,
                      suggestion |-> get_sentiment_suggestion(final_score),
                      analyzed_articles_count |-> Len(analyzed_details),
                      justification_points |-> extract_validation_points(analyzed_details),
                      top_analyzed_items |->
                          SubSeq(analyzed_details, 1, Min2(15, Len(analyzed_details)))])
    /\ UNCHANGED <<aggVars, clsVars, engVars, relVars, selVars>>
    /\ UNCHANGED <<fetVars, dbVars, wishVars>>

\* perform_analysis, lines 136-140
PrototypeSave(r) ==
    /\ reqs[r].impl = "prototype"
    /\ reqs[r].pc = "start"
    /\ IF reqs[r].fetched_content = <<>>
       THEN reqs' = Finish(reqs, r, NoResult) /\ UNCHANGED db
       ELSE /\ db' = save_content_items(db, "AAPL", reqs[r].fetched_content)
            /\ reqs' = [reqs EXCEPT ![r].pc = "saved"]
    /\ UNCHANGED <<aggVars, clsVars, engVars, relVars, selVars>>
    /\ UNCHANGED <<fetVars, run, wishVars>>

\* perform_analysis, lines 143-149
PrototypeAnalyze(r) ==
    /\ reqs[r].impl = "prototype"
    /\ reqs[r].pc = "saved"
    /\ LET analyzed_item_details ==
               analyze_sentiment_for_ticker(reqs[r].fetched_content, "loaded", reqs[r].outcome)
       IN reqs' = IF analyzed_item_details = <<>> THEN Finish(reqs, r, NoResult)
                  ELSE AssignDetails(reqs, r, analyzed_item_details, "analyzed")
    /\ UNCHANGED <<aggVars, clsVars, engVars, relVars, selVars>>
    /\ UNCHANGED <<fetVars, dbVars, wishVars>>

\* perform_analysis, line 151
PrototypeUpdate(r) ==
    /\ reqs[r].impl = "prototype"
    /\ reqs[r].pc = "analyzed"
    /\ db' = update_sentiment_for_items(db, reqs[r].details)
    /\ reqs' = [reqs EXCEPT ![r].pc = "updated"]
    /\ UNCHANGED <<aggVars, clsVars, engVars, relVars, selVars>>
    /\ UNCHANGED <<fetVars, run, wishVars>>

\* perform_analysis, lines 154-177
PrototypeFinish(r) ==
    /\ reqs[r].impl = "prototype"
    /\ reqs[r].pc = "updated"
    /\ LET analyzed_item_details == reqs[r].details
           final_score == calculate_weighted_sentiment(analyzed_item_details, now)
       IN reqs' = Finish(reqs, r,
                     [kind |-> "analysis_data",
                      final_score |-> final_score,
                      analyzed_details |-> analyzed_item_details,
                      suggestion |-> get_suggestion(final_score),
                      validation_points |-> get_validation_points(analyzed_item_details),
                      ticker |-> "AAPL"])
    /\ UNCHANGED <<aggVars, clsVars, engVars, relVars, selVars>>
    /\ UNCHANGED <<fetVars, dbVars, wishVars>>

NextConc ==
    \/ Lifespan
    \/ \E r \in RequestIds : ServiceAnalyze(r)
    \/ \E r \in RequestIds : ServiceRespond(r)
    \/ \E r \in RequestIds : PrototypeSave(r)
    \/ \E r \in RequestIds : PrototypeAnalyze(r)
    \/ \E r \in RequestIds : PrototypeUpdate(r)
    \/ \E r \in RequestIds : PrototypeFinish(r)

SpecConc == InitConc /\ [][NextConc]_vars

\* what the call returns when it runs alone on its inputs
ResultAlone(request) ==
    IF request.impl = "service"
    THEN get_stock_sentiment(request.fetched_content, pipeline, request.outcome, now)
    ELSE perform_analysis([NewsMediaItems |-> {}, RedditItems |-> {}], "AAPL",
                          request.fetched_content, request.outcome, now).result

\* C21: concurrent calls of the engine do not interfere: under every
\* interleaving of their steps each call returns the result it returns when
\* it runs alone on its inputs.
C21_NoInterference ==
    \A r \in RequestIds :
        reqs # <<>> /\ reqs[r].pc = "done" => reqs[r].result = ResultAlone(reqs[r])

\* one call has answered with an analysis while another call of the same
\* program, on other content, is between its analysis and its answer
C21_Witness ==
    /\ reqs # <<>>
    /\ reqs[1].pc = "done"
    /\ reqs[1].result.kind \in {"response", "analysis_data"}
    /\ reqs[2].pc \in {"analyzed", "updated"}
    /\ reqs[1].impl = reqs[2].impl
    /\ reqs[1].details # reqs[2].details

----------------------------------------------------------------------------
(* The fetchers.  The provider's answer is a list: of article metadata for *)
(* NewsAPI, of submissions with their comments for the Reddit searches     *)
(* (the searches of the subreddits one after the other).  What lies behind *)
(* the network - the blacklists applied to the source, the text newspaper  *)
(* downloads and the relevance filter's verdict on it - is the field       *)
(* `relevant` of an entry.                                                 *)

MaxUpstream == 2

REDDIT_POST_LIMIT_PER_SUBREDDIT == 20
REDDIT_COMMENT_LIMIT_PER_POST == 10

Meta(title, url, passes) ==
    [title |-> title, url |-> url, publishedAt |-> IsoZ(0), relevant |-> passes]

Comment(id, passes) == [id |-> id, relevant |-> passes]

Submission(id, passes, comments) ==
    [id |-> id, relevant |-> passes, comments |-> comments]

\* the service's news item carries 'id': url
SvcNewsItem(url, headline, full_text, publishedAt) ==
    [id |-> url, url |-> url, headline |-> headline, full_text |-> full_text,
     publishedAt |-> publishedAt, source_name |-> "Reuters", source_type |-> "news"]

\* the test of line 142: no `url in processed_urls`
SkipMeta(meta, processed_urls) ==
    \/ Falsy(meta.title)
    \/ meta.title = "[Removed]"
    \/ Falsy(meta.url)
    \/ ~Truthy(meta.publishedAt)

\* the test of data_fetcher_service.py line 161
SvcSkipMeta(meta, processed_urls) ==
    \/ Falsy(meta.title)
    \/ meta.title = "[Removed]"
    \/ Falsy(meta.url)
    \/ meta.url \in processed_urls
    \/ ~Truthy(meta.publishedAt)

RECURSIVE NewsLoop(_, _, _, _)
\* the loop of get_us_news over articles_metadata
NewsLoop(articles_metadata, articles_count, enriched_articles, processed_urls) ==
    IF articles_metadata = <<>> THEN enriched_articles
    ELSE LET meta == Head(articles_metadata)
             rest == Tail(articles_metadata)
         IN IF SkipMeta(meta, processed_urls)
            THEN NewsLoop(rest, articles_count, enriched_articles, processed_urls)
            ELSE IF ~meta.relevant
            THEN NewsLoop(rest, articles_count, enriched_articles,
                          processed_urls \cup {meta.url})
            ELSE LET appended ==
                         Append(enriched_articles,
                                NewsItem(meta.url, meta.title, "Body", meta.publishedAt))
                 IN IF Len(appended) >= articles_count THEN appended
                    ELSE NewsLoop(rest, articles_count, appended,
                                  processed_urls \cup {meta.url})

\* data_fetcher.get_us_news from the provider's answer on
get_us_news(articles_metadata, articles_count) ==
    NewsLoop(articles_metadata, articles_count, <<>>, {})

RECURSIVE SvcNewsLoop(_, _, _, _)
SvcNewsLoop(articles_metadata, articles_count, processed_content, processed_urls) ==
    IF articles_metadata = <<>> THEN processed_content
    ELSE LET meta == Head(articles_metadata)
             rest == Tail(articles_metadata)
         IN IF SvcSkipMeta(meta, processed_urls)
            THEN SvcNewsLoop(rest, articles_count, processed_content, processed_urls)
            ELSE IF ~meta.relevant
            THEN SvcNewsLoop(rest, articles_count, processed_content,
                             processed_urls \cup {meta.url})
            ELSE LET appended ==
                         Append(processed_content,
                                SvcNewsItem(meta.url, meta.title, "Body", meta.publishedAt))
                 IN IF Len(appended) >= articles_count THEN appended
                    ELSE SvcNewsLoop(rest, articles_count, appended,
                                     processed_urls \cup {meta.url})

\* data_fetcher_service.fetch_news_data_service from the provider's answer on
fetch_news_data_service(articles_metadata, articles_count) ==
    SvcNewsLoop(articles_metadata, articles_count, <<>>, {})

RECURSIVE CommentLoop(_, _, _, _)
\* the loop over submission.comments.list(): the content and the ids after it
CommentLoop(comments, comment_fetch_count, reddit_content, processed_ids) ==
    IF comments = <<>>
    THEN [reddit_content |-> reddit_content, processed_ids |-> processed_ids]
    ELSE LET comment == Head(comments)
         IN IF comment.id \in processed_ids
            THEN CommentLoop(Tail(comments), comment_fetch_count, reddit_content,
                             processed_ids)
            ELSE IF comment_fetch_count >= REDDIT_COMMENT_LIMIT_PER_POST
            THEN [reddit_content |-> reddit_content, processed_ids |-> processed_ids]
            ELSE IF comment.relevant
            THEN CommentLoop(Tail(comments), comment_fetch_count + 1,
                             Append(reddit_content,
                                    RedditItem(comment.id, "https://reddit.com/c",
                                               "reddit_comment", "Comment on: Post",
                                               "Comment body", IsoZ(0))),
                             processed_ids \cup {comment.id})
            ELSE CommentLoop(Tail(comments), comment_fetch_count, reddit_content,
                             processed_ids \cup {comment.id})

RECURSIVE RedditLoop(_, _, _)
\* the loop of fetch_reddit_data over the submissions found
RedditLoop(submissions, reddit_content, processed_ids) ==
    IF submissions = <<>> THEN reddit_content
    ELSE LET submission == Head(submissions)
             rest == Tail(submissions)
         IN IF submission.id \in processed_ids
            THEN RedditLoop(rest, reddit_content, processed_ids)
            ELSE IF ~submission.relevant
            THEN RedditLoop(rest, reddit_content, processed_ids \cup {submission.id})
            ELSE LET after ==
                         CommentLoop(submission.comments, 0,
                                     Append(reddit_content,
                                            RedditItem(submission.id, "https://reddit.com/p",
                                                       "reddit_post", "Post",
                                                       "Post. Body", IsoZ(0))),
                                     processed_ids \cup {submission.id})
                 IN IF Len(after.reddit_content) >= REDDIT_POST_LIMIT_PER_SUBREDDIT * 3
                    THEN after.reddit_content
                    ELSE RedditLoop(rest, after.reddit_content, after.processed_ids)

\* data_fetcher.fetch_reddit_data from the search results on
fetch_reddit_data(submissions) == RedditLoop(submissions, <<>>, {})

RECURSIVE SvcRedditLoop(_, _, _)
\* the loop of fetch_reddit_data_service: posts only, an id is remembered
\* once its post was found relevant
SvcRedditLoop(submissions, processed_content, processed_ids) ==
    IF submissions = <<>> THEN processed_content
    ELSE LET submission == Head(submissions)
             rest == Tail(submissions)
         IN IF submission.id \in processed_ids
            THEN SvcRedditLoop(rest, processed_content, processed_ids)
            ELSE IF ~submission.relevant
            THEN SvcRedditLoop(rest, processed_content, processed_ids)
            ELSE SvcRedditLoop(rest,
                               Append(processed_content,
                                      RedditItem(submission.id, "https://reddit.com/p",
                                                 "reddit_post", "Post", "Post. Body",
                                                 IsoZ(0))),
                               processed_ids \cup {submission.id})

\* data_fetcher_service.fetch_reddit_data_service from the search results on
fetch_reddit_data_service(submissions) == SvcRedditLoop(submissions, <<>>, {})

Metas ==
    {Meta(title, url, passes) :
        title \in {"Title", "[Removed]"}, url \in {"u1", "u2", PyNone},
        passes \in BOOLEAN}

CommentLists ==
    {<<>>, <<Comment("c1", TRUE)>>, <<Comment("c1", TRUE), Comment("c1", TRUE)>>,
     <<Comment("p1", TRUE), Comment("c2", FALSE)>>}

Submissions ==
    {Submission(id, passes, comments) :
        id \in {"p1", "p2"}, passes \in BOOLEAN, comments \in CommentLists}

Upstreams ==
    {[kind |-> "news", entries |-> l] : l \in ListsOf(Metas, MaxUpstream)}
    \cup {[kind |-> "reddit", entries |-> l] : l \in ListsOf(Submissions, MaxUpstream)}

InitFetch ==
    /\ AggIdle
    /\ ClsIdle
    /\ SelIdle
    /\ EngIdle
    /\ RelIdle
    /\ DbIdle
    /\ ReqIdle
    /\ WishIdle
    /\ upstream \in Upstreams
    /\ batch = None

Fetched(fetcher, identifier, items) ==
    [fetcher |-> fetcher, identifier |-> identifier, items |-> items]

GetUsNews ==
    /\ upstream.kind = "news"
    /\ \E articles_count \in 1..MaxUpstream :
          batch' = Fetched("get_us_news", "url", get_us_news(upstream.entries, articles_count))
    /\ UNCHANGED <<aggVars, clsVars, engVars, relVars, selVars>>
    /\ UNCHANGED <<upstream, dbVars, reqVars, wishVars>>

FetchNewsDataService ==
    /\ upstream.kind = "news"
    /\ \E articles_count \in 1..MaxUpstream :
          batch' = Fetched("fetch_news_data_service", "url",
                           fetch_news_data_service(upstream.entries, articles_count))
    /\ UNCHANGED <<aggVars, clsVars, engVars, relVars, selVars>>
    /\ UNCHANGED <<upstream, dbVars, reqVars, wishVars>>

FetchRedditData ==
    /\ upstream.kind = "reddit"
    /\ batch' = Fetched("fetch_reddit_data", "id", fetch_reddit_data(upstream.entries))
    /\ UNCHANGED <<aggVars, clsVars, engVars, relVars, selVars>>
    /\ UNCHANGED <<upstream, dbVars, reqVars, wishVars>>

FetchRedditDataService ==
    /\ upstream.kind = "reddit"
    /\ batch' = Fetched("fetch_reddit_data_service", "id",
                        fetch_reddit_data_service(upstream.entries))
    /\ UNCHANGED <<aggVars, clsVars, engVars, relVars, selVars>>
    /\ UNCHANGED <<upstream, dbVars, reqVars, wishVars>>

NextFetch ==
    \/ GetUsNews
    \/ FetchNewsDataService
    \/ FetchRedditData
    \/ FetchRedditDataService

SpecFetch == InitFetch /\ [][NextFetch]_vars

NoDuplicates(b) ==
    \A i, j \in 1..Len(b.items) :
        b.items[i][b.identifier] = b.items[j][b.identifier] => i = j

\* an entry that a fetcher passes occurs twice in the provider's answer
UpstreamRepeats ==
    \E i, j \in 1..Len(upstream.entries) :
        /\ i < j
        /\ upstream.entries[i].relevant
        /\ upstream.entries[j].relevant
        /\ IF upstream.kind = "news"
           THEN /\ upstream.entries[i].url = upstream.entries[j].url
                /\ ~SkipMeta(upstream.entries[i], {})
                /\ ~SkipMeta(upstream.entries[j], {})
           ELSE upstream.entries[i].id = upstream.entries[j].id

\* C22: a batch returned by a fetcher (news or Reddit, prototype or
\* service) holds no two items with the same identifier - URL for news,
\* provider id for Reddit - also when the provider returns an article or
\* post more than once.
C22_NoDuplicateIdentifiers == batch # None => NoDuplicates(batch)

\* the provider repeated an article that passes the filters, and the
\* service's news fetcher returned it once
C22_Witness ==
    /\ batch # None
    /\ batch.fetcher = "fetch_news_data_service"
    /\ UpstreamRepeats
    /\ Len(batch.items) = 1

----------------------------------------------------------------------------
(* The store under calls of save_stock_info, save_content_items,           *)
(* update_sentiment_for_items and of perform_analysis as a whole (SpecDB). *)
(* The ticker has its Stocks row: the script saves it before any analysis. *)

MaxSave == 1

\* a news article, the same article fetched again under a changed headline,
\* and a Reddit post
DbItems ==
    {NewsItem("u1", "Title one", "Body one", IsoNaive(Now0)),
     NewsItem("u1", "Title one, updated", "Body one", IsoNaive(Now0)),
     RedditItem("r1", "https://reddit.com/r1", "reddit_post", "Post one",
                "Post one. Body", IsoZ(Now0))}

DbBatches == ListsOf(DbItems, MaxSave)

\* analysis results as the two analysis functions build them: the service's
\* carry 'source_specific_id', the prototype's do not
DbResultLists ==
    UNION {{analyze_sentiment_for_ticker(c, "loaded", o),
            analyze_content_sentiment(c, "loaded", o)} :
              <<c, o>> \in UNION {{<<b, out>> : out \in RequestOutcomes(b)} :
                                     b \in DbBatches \ {<<>>}}}

InitDB ==
    /\ AggIdle
    /\ ClsIdle
    /\ SelIdle
    /\ EngIdle
    /\ RelIdle
    /\ FetIdle
    /\ ReqIdle
    /\ WishIdle
    /\ db = [NewsMediaItems |-> {}, RedditItems |-> {}]
    /\ run = None

SaveContentItems ==
    /\ \E content_items_list \in DbBatches :
          /\ db' = save_content_items(db, "AAPL", content_items_list)
          /\ run' = [op |-> "save_content_items", items |-> content_items_list]
    /\ UNCHANGED <<aggVars, clsVars, engVars, relVars, selVars>>
    /\ UNCHANGED <<fetVars, reqVars, wishVars>>

UpdateSentimentForItems ==
    /\ \E analyzed_results_list \in DbResultLists :
          /\ db' = update_sentiment_for_items(db, analyzed_results_list)
          /\ run' = [op |-> "update_sentiment_for_items",
                     results |-> analyzed_results_list]
    /\ UNCHANGED <<aggVars, clsVars, engVars, relVars, selVars>>
    /\ UNCHANGED <<fetVars, reqVars, wishVars>>

PerformAnalysis ==
    /\ \E fetched_content \in DbBatches \ {<<>>} :
          \E outcome \in RequestOutcomes(fetched_content) :
              LET after == perform_analysis(db, "AAPL", fetched_content, outcome, now)
              IN /\ db' = after.tables
                 /\ run' = [op |-> "perform_analysis", fetched |-> fetched_content,
                            details |-> IF after.result = NoResult THEN <<>>
                                        ELSE after.result.analyzed_details]
    /\ UNCHANGED <<aggVars, clsVars, engVars, relVars, selVars>>
    /\ UNCHANGED <<fetVars, reqVars, wishVars>>

\* app.py line 194: every run of the script saves the stock's row again
SaveStockInfo ==
    /\ db' = save_stock_info(db, "AAPL")
    /\ run' = [op |-> "save_stock_info"]
    /\ UNCHANGED <<aggVars, clsVars, engVars, relVars, selVars>>
    /\ UNCHANGED <<fetVars, reqVars, wishVars>>

NextDB ==
    \/ SaveStockInfo
    \/ SaveContentItems
    \/ UpdateSentimentForItems
    \/ PerformAnalysis

SpecDB == InitDB /\ [][NextDB]_vars

HasSentiment(row) == ~IsNull(row.sentiment_score) /\ ~IsNull(row.sentiment_label)

\* the rows an item was saved as
RowsOf(tables, item) ==
    IF item.source_type = "news"
    THEN {row \in tables.NewsMediaItems : row.url = item.url}
    ELSE {row \in tables.RedditItems : row.reddit_id = item.id}

\* C25: after perform_analysis has saved the fetched items and called
\* update_sentiment_for_items with the analysis results, every saved item
\* that was analyzed, news or Reddit, has its sentiment score and label
\* stored in its row.
C25_AnalyzedItemsHaveSentiment ==
    (run # None /\ run.op = "perform_analysis" /\ run.details # <<>>) =>
        \A i \in 1..Len(Kept(run.fetched)) :
            \A row \in RowsOf(db, Kept(run.fetched)[i]) : HasSentiment(row)

\* a news item went through perform_analysis and its row holds the
\* sentiment of that analysis
C25_Witness ==
    /\ run # None /\ run.op = "perform_analysis"
    /\ Len(run.details) = 1
    /\ run.fetched[1].source_type = "news"
    /\ \E row \in db.NewsMediaItems :
          /\ row.url = run.fetched[1].url
          /\ row.sentiment_score = Col(run.details[1].score)
          /\ row.sentiment_label = Col(run.details[1].label)

\* a row is kept but for its sentiment columns
SameItem(row, after) ==
    after = [row EXCEPT !.sentiment_score = after.sentiment_score,
                        !.sentiment_label = after.sentiment_label]

\* C26: stored sentiment is write-once: whatever save_content_items and
\* update_sentiment_for_items calls follow, a row whose score and label
\* are both set keeps exactly those values, and saving an item whose URL or
\* id is already stored neither adds a second row nor overwrites the row.
C26_SentimentWriteOnce ==
    [][run'.op \in {"save_content_items", "update_sentiment_for_items", "perform_analysis"} =>
        /\ \A row \in db.NewsMediaItems \cup db.RedditItems :
              HasSentiment(row) => row \in db'.NewsMediaItems \cup db'.RedditItems
        /\ \A row \in db.NewsMediaItems :
              /\ \E after \in db'.NewsMediaItems : SameItem(row, after)
              /\ Cardinality({after \in db'.NewsMediaItems : after.url = row.url}) = 1
        /\ \A row \in db.RedditItems :
              /\ \E after \in db'.RedditItems : SameItem(row, after)
              /\ Cardinality({after \in db'.RedditItems :
                                 after.reddit_id = row.reddit_id}) = 1]_vars

\* a re-analysis with another score was handed to
\* update_sentiment_for_items and the row kept the score it had
C26_Witness ==
    /\ run # None /\ run.op = "update_sentiment_for_items"
    /\ \E i \in 1..Len(run.results) :
          \E row \in db.NewsMediaItems :
              /\ row.url = run.results[i].url
              /\ HasSentiment(row)
              /\ \A j \in 1..Len(run.results) :
                    run.results[j].url = row.url
                        => row.sentiment_score # Col(run.results[j].score)

----------------------------------------------------------------------------
(* The wishlist endpoint (SpecWish).  add_stock_to_wishlist is a plain     *)
(* `def`, which FastAPI runs in a worker thread, each request with its own *)
(* database session: the SELECT of get_wishlist_item and the INSERT and    *)
(* commit of add_item_to_wishlist of two requests interleave.  Table       *)
(* wishlist_items has no unique constraint on (user_id, ticker_symbol):    *)
(* the one in models.py is commented out.                                  *)

MaxHandlers == 2

UpperChar(c) ==
    IF \E i \in 1..Len(LowerCase) : LowerCase[i] = c
    THEN UpperCase[CHOOSE i \in 1..Len(LowerCase) : LowerCase[i] = c]
    ELSE c

\* str.upper()
upper(str) == [i \in 1..Len(str) |-> UpperChar(str[i])]

\* crud_wishlist.get_wishlist_item: the first matching row, or None
get_wishlist_item(table, user_id, ticker_symbol) ==
    LET found == {row \in table : row.user_id = user_id
                                  /\ row.ticker_symbol = upper(ticker_symbol)}
    IN IF found = {} THEN None
       ELSE CHOOSE row \in found : \A other \in found : row.id <= other.id

NextId(table) ==
    IF table = {} THEN 1
    ELSE 1 + (CHOOSE n \in {row.id : row \in table} :
                 \A row \in table : row.id <= n)

\* crud_wishlist.add_item_to_wishlist: db.add, db.commit
add_item_to_wishlist(table, ticker_symbol, user_id) ==
    table \cup {[id |-> NextId(table), ticker_symbol |-> upper(ticker_symbol),
                 user_id |-> user_id]}

WishTickers == {<<"a", "b">>, <<"A", "b">>, <<"A", "B">>, <<"c">>}

UserIds == {1, 2}

AddRequest(user_id, ticker_symbol) ==
    [pc |-> "start", user_id |-> user_id, ticker_symbol |-> ticker_symbol,
     status_code |-> 0]

InitWish ==
    /\ AggIdle
    /\ ClsIdle
    /\ SelIdle
    /\ EngIdle
    /\ RelIdle
    /\ FetIdle
    /\ DbIdle
    /\ ReqIdle
    /\ wishlist_items = {}
    /\ handlers \in [1..MaxHandlers ->
                        {AddRequest(u, t) : u \in UserIds, t \in WishTickers}]

\* add_stock_to_wishlist, lines 25-32: the lookup and the 400
CheckExisting(h) ==
    /\ handlers[h].pc = "start"
    /\ LET ticker_upper == upper(handlers[h].ticker_symbol)
           existing_item == get_wishlist_item(wishlist_items, handlers[h].user_id,
                                              ticker_upper)
       IN handlers' = IF existing_item # None
                      THEN [handlers EXCEPT ![h].pc = "done", ![h].status_code = 400]
                      ELSE [handlers EXCEPT ![h].pc = "checked"]
    /\ UNCHANGED wishlist_items
    /\ UNCHANGED <<aggVars, clsVars, engVars, relVars, selVars>>
    /\ UNCHANGED <<fetVars, dbVars, reqVars>>

\* add_stock_to_wishlist, lines 35-37: the insert and the 201
AddItem(h) ==
    /\ handlers[h].pc = "checked"
    /\ wishlist_items' = add_item_to_wishlist(wishlist_items,
                                              upper(handlers[h].ticker_symbol),
                                              handlers[h].user_id)
    /\ handlers' = [handlers EXCEPT ![h].pc = "done", ![h].status_code = 201]
    /\ UNCHANGED <<aggVars, clsVars, engVars, relVars, selVars>>
    /\ UNCHANGED <<fetVars, dbVars, reqVars>>

NextWish ==
    \/ \E h \in 1..MaxHandlers : CheckExisting(h)
    \/ \E h \in 1..MaxHandlers : AddItem(h)

SpecWish == InitWish /\ [][NextWish]_vars

SameWish(g, h) ==
    /\ handlers[g].user_id = handlers[h].user_id
    /\ upper(handlers[g].ticker_symbol) = upper(handlers[h].ticker_symbol)

\* C27: under every interleaving of concurrent add_stock_to_wishlist
\* requests of one user for one ticker, in any letter case, the wishlist
\* never holds the upper-cased ticker twice: at most one request creates
\* the item and the others are rejected.
C27_NoDuplicateTicker ==
    /\ \A row, other \in wishlist_items :
          (row.user_id = other.user_id /\ row.ticker_symbol = other.ticker_symbol)
              => row = other
    /\ \A g, h \in DOMAIN handlers :
          (g # h /\ SameWish(g, h) /\ handlers[g].status_code = 201)
              => handlers[h].status_code # 201

\* one request created the item and a later one for the same ticker in
\* another letter case was rejected
C27_Witness ==
    /\ handlers # <<>>
    /\ SameWish(1, 2)
    /\ handlers[1].ticker_symbol # handlers[2].ticker_symbol
    /\ handlers[1].status_code = 201
    /\ handlers[2].status_code = 400
    /\ Cardinality(wishlist_items) = 1

============================================================================
